---- MODULE Spec2Model ----
(***************************************************************************)
(* Model of the asynchronous ingestion-and-dispatch core of the bot:       *)
(*   - the per-task archive serial counter  (utils/database.py)            *)
(*   - the media-group aggregator           (services/forwarding_engine.py)*)
(*   - the rate limiter                     (services/rate_limiter.py)     *)
(*   - the TTL caches of the rule engine    (services/ai_rule_engine.py)   *)
(*   - the queue manager and its workers    (services/queue_system.py)     *)
(*   - the four-stage AI pipeline           (services/ai_pipeline.py)      *)
(*   - the dispatch of a unit to its targets (services/forwarding_engine.py)*)
(*   - the generate call and its providers  (services/ai_providers.py)     *)
(*   - the filter verdict of a forward      (services/forwarding_engine.py)*)
(* Each component has its own specification (SpecSerial, SpecGroup, ...);  *)
(* the variables of the other components keep their initial value there.   *)
(***************************************************************************)
EXTENDS Integers, Sequences, FiniteSets, TLC

VARIABLES
    \* ---- archive serial counter (table archive_serial_counter)
    serialRows,     \* task_id -> set of last_serial values held by the task's rows
    callPc,         \* caller -> position inside get_next_serial_number
    callTask,       \* caller -> task_id argument of the call in progress
    callExisting,   \* caller -> result of the SELECT: {last_serial}, or {} for no row
    callOverlap,    \* caller -> TRUE when another call for the task ran meanwhile
    returned,       \* history: sequence of [task, serial, overlap] returned
    raisedCalls,    \* history: number of calls that ended with a store exception
    \* ---- media-group aggregator (ForwardingEngine)
    media_group_cache,   \* cache_key -> sequence of buffered messages (partial)
    media_group_config,  \* cache_key -> config captured at the first message (partial)
    media_group_tasks,   \* cache_key -> flush task scheduled for the key (partial)
    media_group_lock,    \* <<>> when free, else <<"item", i>> or <<"flush", f>>
    itemPc,              \* message -> position inside _handle_media_group
    itemKey,             \* message -> cache_key of the message (once arrived)
    flushTasks,          \* sequence of flush tasks [key, pc, messages, config]
    arrivals,            \* history: cache_key -> messages in order of arrival
    flushed,             \* history: sequence of [key, items, task] handed to processing
    lateArrival,         \* history: cache_key -> a message arrived after a pop of the key
    task_is_active,      \* tasks.is_active of the task the groups belong to
    taskToggles,         \* history: number of times the task was switched
    \* ---- rate limiter (RateLimiter)
    request_counters,      \* model_name -> [count, window_start] (partial)
    token_buckets,         \* model_name -> [tokens, last_refill] (partial)
    daily_token_counters,  \* model_name -> [tokens, date] (partial)
    now,                   \* time.time(), in ticks
    today,                 \* datetime.now().date(), as a day number
    rateCalls,             \* history: number of can_request calls made
    lastDenied,            \* history: the check that denied the last call, or "none"
    admitLog,              \* history: model_name -> admitted [time, tokens] of the last minute
    tpmAlways,             \* history: model_name -> every call so far passed tpm_limit
    rpmRun,                \* history: model_name -> the calls of the key's first RPM window
    lastWait,              \* history: the estimates and the value of the last get_wait_time
    waitCalls,             \* history: number of get_wait_time calls made
    \* ---- rule engine caches (AIRuleEngine)
    caches,                \* cache name -> task_id -> [data, timestamp] (partial)
    ruleStore,             \* cache name -> task_id -> rows of the rule table
    cacheNow,              \* time.time(), in seconds
    lookupPc,              \* lookup coroutine -> "idle" | "awaiting" | "fetched"
    lookupArgs,            \* lookup coroutine -> [cache, task_id] of its call
    lookupRows,            \* lookup coroutine -> rows its store call returned
    lastResult,            \* history: what the last lookup to return returned
    lookupCount,           \* history: number of lookups begun
    storeCalls,            \* history: number of store calls made
    clearLog,              \* history: [task_id, removed] of the clear_cache calls made
    preClearReads,         \* history: lookups and entries holding rows read before a clear
    \* ---- job queue (QueueManager, QueueWorker, queue_jobs table)
    queue_jobs,            \* job id -> [type, priority, status, attempts, max_attempts]
    is_running,            \* QueueManager.is_running
    job_handlers,          \* job types with a registered handler
    loopPc,                \* position of the process_queue task
    workers,               \* job id -> [pc, attempts, max_attempts] of this cycle's tasks (partial)
    jobHist,               \* history: job id -> [invoked, returned]
    storeFaults,           \* history: number of store calls that raised
    stopCalled,            \* history: stop() has been called
    \* ---- AI pipeline (AIPipeline.process)
    pipePc,                \* position of the process call
    pipeInput,             \* text, the argument of process
    pipeRules,             \* the task's active format rule: [remove_extra_spaces, remove_urls]
    current_text,          \* current_text of process
    ai_output,             \* what _process_with_ai returned
    stages,                \* stages of the result: sequence of [stage_name, success]
    final_text,            \* final_text of the result
    pipeResult,            \* [returned, success] of the call
    ruleText,              \* history: rule_result.processed_text
    postInput,             \* history: the text postprocessing.process was given
    \* ---- dispatch of a unit to its destinations (ForwardingEngine)
    dispatch,              \* unit -> [kind, pc, results] of the units past their allocation (partial)
    archive_messages,      \* rows of the archive: sequence of [unit, task, serial]
    \* ---- the generate call of the pipeline (AIManager and its providers)
    genPc,                 \* "idle", "awaiting" (a request is with the service), "done"
    genRequest,            \* [provider, model] of the generate call in progress
    models_to_try,         \* the model list of the call in progress
    tryIndex,              \* position of try_model in models_to_try
    inferenceCalls,        \* history: models of the requests sent to the service, in order
    admissions,            \* history: models that can_request admitted for this call
    genResult,             \* what _process_with_ai got: [output, model, how]
    genRequests,           \* history: number of generate calls started
    \* ---- concurrent can_request calls on the limiter (RateLimiter.lock)
    limiter_lock,          \* the requesters inside "async with self.lock"
    reqPc,                 \* requester -> position in can_request
    reqArgs,               \* requester -> [tokens, tpm_limit, rpm_limit, tpd_limit] of its call
    reqBy,                 \* requester -> the check that denied its call, "none" if admitted
    reqBase,               \* history: the limiter state when the calls of the round began
    reqRounds,             \* history: number of rounds of calls returned
    \* ---- the limiter called with one tpd_limit throughout
    dayAdmitted,           \* history: key -> day -> tokens of the calls admitted that day
    \* ---- forward_message for a single message, from processing to the sends
    fwdPc,                 \* "idle", "processing", "sending"
    fwdMessage,            \* the message of the call in progress (0: none)
    fwd_processed_text,    \* processed_text of forward_message; "None" for None
    message_cache,         \* message -> processed text kept by forward_message (partial)
    fwdBlocked,            \* history: message -> _process_message reported a block filter
    fwdSends,              \* history: sequence of [message, target, text] sent
    fwdTargets,            \* targets whose task of the call in progress has not ended
    fwdCalls               \* history: number of forward_message calls

serialVars == <<serialRows, callPc, callTask, callExisting, callOverlap, returned, raisedCalls>>

groupVars == <<media_group_cache, media_group_config, media_group_tasks, media_group_lock,
               itemPc, itemKey, flushTasks, arrivals, flushed, lateArrival,
               task_is_active, taskToggles>>

rateState == <<request_counters, token_buckets, daily_token_counters>>

rateVars == <<request_counters, token_buckets, daily_token_counters, now, today,
              rateCalls, lastDenied, admitLog, tpmAlways, rpmRun, lastWait, waitCalls>>

cacheVars == <<caches, ruleStore, cacheNow, lookupPc, lookupArgs, lookupRows,
               lastResult, lookupCount, storeCalls, clearLog,
               preClearReads>>

queueVars == <<queue_jobs, is_running, job_handlers, loopPc, workers, jobHist,
               storeFaults, stopCalled>>

pipeVars == <<pipePc, pipeInput, pipeRules, current_text, ai_output, stages, final_text,
              pipeResult, ruleText, postInput>>

dispatchVars == <<dispatch, archive_messages>>

providerVars == <<genPc, genRequest, models_to_try, tryIndex, inferenceCalls, admissions,
                  genResult, genRequests>>

limiterVars == <<limiter_lock, reqPc, reqArgs, reqBy, reqBase, reqRounds>>

dailyVars == <<dayAdmitted>>

filterVars == <<fwdPc, fwdMessage, fwd_processed_text, message_cache, fwdBlocked, fwdSends,
                fwdTargets, fwdCalls>>

vars == <<serialVars, groupVars, rateVars, cacheVars, queueVars, pipeVars, dispatchVars,
          providerVars, limiterVars, dailyVars, filterVars>>

\* The variables of the other components, which an action of a component leaves alone.
notSerialVars == <<groupVars, rateVars, cacheVars, queueVars, pipeVars, dispatchVars,
                   providerVars, limiterVars, dailyVars, filterVars>>
notGroupVars == <<serialVars, rateVars, cacheVars, queueVars, pipeVars, dispatchVars,
                  providerVars, limiterVars, dailyVars, filterVars>>
notRateVars == <<serialVars, groupVars, cacheVars, queueVars, pipeVars, dispatchVars,
                 providerVars, limiterVars, dailyVars, filterVars>>
notCacheVars == <<serialVars, groupVars, rateVars, queueVars, pipeVars, dispatchVars,
                  providerVars, limiterVars, dailyVars, filterVars>>
notQueueVars == <<serialVars, groupVars, rateVars, cacheVars, pipeVars, dispatchVars,
                  providerVars, limiterVars, dailyVars, filterVars>>
notPipeVars == <<serialVars, groupVars, rateVars, cacheVars, queueVars, dispatchVars,
                 providerVars, limiterVars, dailyVars, filterVars>>
notDispatchVars == <<serialVars, groupVars, rateVars, cacheVars, queueVars, pipeVars,
                    providerVars, limiterVars, dailyVars, filterVars>>
notProviderVars == <<serialVars, groupVars, rateVars, cacheVars, queueVars, pipeVars,
                    dispatchVars, limiterVars, dailyVars, filterVars>>
notLimiterVars == <<serialVars, groupVars, cacheVars, queueVars, pipeVars, dispatchVars,
                    providerVars, dailyVars, filterVars>>
notDailyVars == <<serialVars, groupVars, cacheVars, queueVars, pipeVars, dispatchVars,
                  providerVars, limiterVars, filterVars>>
notFilterVars == <<serialVars, groupVars, rateVars, cacheVars, queueVars, pipeVars,
                   dispatchVars, providerVars, limiterVars, dailyVars>>

(***************************************************************************)
(* Archive serial counter: Database.get_next_serial_number                 *)
(***************************************************************************)
NumTasks == 2
NumCallers == 2
MaxSerialCalls == 3

Tasks == 1..NumTasks
Callers == 1..NumCallers

SerialInit ==
    /\ serialRows = [t \in Tasks |-> {}]
    /\ callPc = [c \in Callers |-> "idle"]
    /\ callTask = [c \in Callers |-> 1]
    /\ callExisting = [c \in Callers |-> {}]
    /\ callOverlap = [c \in Callers |-> FALSE]
    /\ returned = <<>>
    /\ raisedCalls = 0

\* Calls started so far (finished ones and the ones in progress).
SerialCallsStarted ==
    Len(returned) + raisedCalls + Cardinality({c \in Callers : callPc[c] # "idle"})

\* SELECT last_serial FROM archive_serial_counter WHERE task_id = $1:
\* any row of the task, or no row.
FetchrowResults(t) ==
    IF serialRows[t] = {} THEN {{}} ELSE {{v} : v \in serialRows[t]}

\* The callers that are inside a call for task t.
InFlight(t) == {c \in Callers : callPc[c] # "idle" /\ callTask[c] = t}

get_next_serial_number_fetchrow(c, t) ==
    /\ callPc[c] = "idle"
    /\ SerialCallsStarted < MaxSerialCalls
    /\ \E e \in FetchrowResults(t) :
          callExisting' = [callExisting EXCEPT ![c] = e]
    /\ callPc' = [callPc EXCEPT ![c] = "selected"]
    /\ callTask' = [callTask EXCEPT ![c] = t]
    /\ callOverlap' = [d \in Callers |->
                          IF d = c THEN InFlight(t) # {}
                          ELSE IF d \in InFlight(t) THEN TRUE ELSE callOverlap[d]]
    /\ UNCHANGED <<serialRows, returned, raisedCalls>>
    /\ UNCHANGED notSerialVars

\* UPDATE ... SET last_serial = $1 WHERE task_id = $2: every row of the task.
UpdateRows(rows, new_serial) == IF rows = {} THEN {} ELSE {new_serial}

\* An allocation that leaves a gap after the stored value.
NewSerialSkipping(existing) == (CHOOSE v \in existing : TRUE) + 2

\* new_serial = existing['last_serial'] + 1
NewSerial(existing) == (CHOOSE v \in existing : TRUE) + 1

get_next_serial_number_update(c) ==
    /\ callPc[c] = "selected"
    /\ callExisting[c] # {}
    /\ LET t == callTask[c]
           new_serial == NewSerial(callExisting[c])
       IN /\ serialRows' = [serialRows EXCEPT ![t] = UpdateRows(@, new_serial)]
          /\ returned' = Append(returned,
                 [task |-> t, serial |-> new_serial, overlap |-> callOverlap[c]])
    /\ callPc' = [callPc EXCEPT ![c] = "idle"]
    /\ callExisting' = [callExisting EXCEPT ![c] = {}]
    /\ UNCHANGED <<callTask, callOverlap, raisedCalls>>
    /\ UNCHANGED notSerialVars

\* INSERT ... VALUES ($1, 1) when the SELECT found no row.  If a row has been
\* inserted meanwhile the statement either adds a second row or fails on the
\* key of the table (the schema is not part of the sources).
get_next_serial_number_insert(c) ==
    /\ callPc[c] = "selected"
    /\ callExisting[c] = {}
    /\ LET t == callTask[c]
       IN /\ serialRows' = [serialRows EXCEPT ![t] = @ \cup {1}]
          /\ returned' = Append(returned,
                 [task |-> t, serial |-> 1, overlap |-> callOverlap[c]])
    /\ callPc' = [callPc EXCEPT ![c] = "idle"]
    /\ UNCHANGED <<callTask, callExisting, callOverlap, raisedCalls>>
    /\ UNCHANGED notSerialVars

get_next_serial_number_insert_conflict(c) ==
    /\ callPc[c] = "selected"
    /\ callExisting[c] = {}
    /\ serialRows[callTask[c]] # {}
    /\ raisedCalls' = raisedCalls + 1
    /\ callPc' = [callPc EXCEPT ![c] = "idle"]
    /\ UNCHANGED <<serialRows, callTask, callExisting, callOverlap, returned>>
    /\ UNCHANGED notSerialVars

SerialNext ==
    \/ \E c \in Callers, t \in Tasks : get_next_serial_number_fetchrow(c, t)
    \/ \E c \in Callers : get_next_serial_number_update(c)
    \/ \E c \in Callers : get_next_serial_number_insert(c)
    \/ \E c \in Callers : get_next_serial_number_insert_conflict(c)

(***************************************************************************)
(* Media-group aggregator: ForwardingEngine._handle_media_group and        *)
(* ForwardingEngine._process_media_group_after_delay                       *)
(***************************************************************************)
NumItems == 3
NumGroupKeys == 2
MaxToggles == 1

\* A direct start of the flush coroutine happens while fewer than this many
\* flush tasks exist.
MaxTasksAtCall == 1

Items == 1..NumItems
GroupKeys == 1..NumGroupKeys

GroupInit ==
    /\ media_group_cache = <<>>
    /\ media_group_config = <<>>
    /\ media_group_tasks = <<>>
    /\ media_group_lock = <<>>
    /\ itemPc = [i \in Items |-> "new"]
    /\ itemKey = [i \in Items |-> 1]
    /\ flushTasks = <<>>
    /\ arrivals = [k \in GroupKeys |-> <<>>]
    /\ flushed = <<>>
    /\ lateArrival = [k \in GroupKeys |-> FALSE]
    /\ task_is_active = TRUE
    /\ taskToggles = 0

\* dict.pop(key, None)
DictPop(d, k) == [x \in (DOMAIN d) \ {k} |-> d[x]]

\* dict[key] = value
DictPut(d, k, v) == [x \in (DOMAIN d) \cup {k} |-> IF x = k THEN v ELSE d[x]]

\* A lock that never makes anybody wait.
LockNeverHeld == TRUE

\* async with self.media_group_lock: the lock can be taken when nobody holds it.
LockFree == media_group_lock = <<>>

\* A pop of the key has already happened (a flush task of the key is past its pop).
KeyPopped(k) ==
    \E f \in DOMAIN flushTasks :
        flushTasks[f].key = k /\ flushTasks[f].pc \in {"processing", "finally", "done"}
                              /\ flushTasks[f].found

\* _handle_media_group, up to the acquisition of the lock (lines 1009-1018).
handle_media_group_enter(i, k) ==
    /\ itemPc[i] = "new"
    /\ LockFree
    /\ media_group_lock' = <<"item", i>>
    /\ itemPc' = [itemPc EXCEPT ![i] = "locked"]
    /\ itemKey' = [itemKey EXCEPT ![i] = k]
    /\ arrivals' = [arrivals EXCEPT ![k] = Append(@, i)]
    /\ lateArrival' = [lateArrival EXCEPT ![k] = @ \/ KeyPopped(k)]
    /\ UNCHANGED <<media_group_cache, media_group_config, media_group_tasks,
                   flushTasks, flushed>>
    /\ UNCHANGED <<task_is_active, taskToggles>>
    /\ UNCHANGED notGroupVars

\* A variant of the arrival handler that schedules a flush task at every
\* arrival, whether or not the key is buffered already.
handle_media_group_append_rescheduling(i) ==
    /\ itemPc[i] = "locked"
    /\ LET k == itemKey[i]
           is_first == k \notin DOMAIN media_group_cache
           old == IF is_first THEN <<>> ELSE media_group_cache[k]
       IN /\ media_group_cache' = DictPut(media_group_cache, k, Append(old, i))
          /\ media_group_config' =
                 IF is_first
                 THEN DictPut(media_group_config, k,
                              [first |-> i, is_active |-> task_is_active])
                 ELSE media_group_config
          /\ flushTasks' = Append(flushTasks,
                 [key |-> k, pc |-> "sleeping", found |-> FALSE,
                  messages |-> <<>>, config |-> <<>>])
          /\ media_group_tasks' =
                 DictPut(media_group_tasks, k, Len(flushTasks) + 1)
    /\ media_group_lock' = <<>>
    /\ itemPc' = [itemPc EXCEPT ![i] = "done"]
    /\ UNCHANGED <<itemKey, arrivals, flushed, lateArrival>>
    /\ UNCHANGED <<task_is_active, taskToggles>>
    /\ UNCHANGED notGroupVars

\* The critical section of _handle_media_group and what follows the release of
\* the lock (lines 1019-1045); no await separates these statements.
handle_media_group_append(i) ==
    /\ itemPc[i] = "locked"
    /\ LET k == itemKey[i]
           is_first == k \notin DOMAIN media_group_cache
           old == IF is_first THEN <<>> ELSE media_group_cache[k]
       IN /\ media_group_cache' = DictPut(media_group_cache, k, Append(old, i))
          /\ media_group_config' =
                 IF is_first
                 THEN DictPut(media_group_config, k,
                              [first |-> i, is_active |-> task_is_active])
                 ELSE media_group_config
          /\ IF is_first
             THEN /\ flushTasks' = Append(flushTasks,
                         [key |-> k, pc |-> "sleeping", found |-> FALSE,
                          messages |-> <<>>, config |-> <<>>])
                  /\ media_group_tasks' =
                         DictPut(media_group_tasks, k, Len(flushTasks) + 1)
             ELSE UNCHANGED <<flushTasks, media_group_tasks>>
    /\ media_group_lock' = <<>>
    /\ itemPc' = [itemPc EXCEPT ![i] = "done"]
    /\ UNCHANGED <<itemKey, arrivals, flushed, lateArrival>>
    /\ UNCHANGED <<task_is_active, taskToggles>>
    /\ UNCHANGED notGroupVars

\* _process_media_group_after_delay: the sleep is over and the lock is taken
\* (lines 1054-1056).
process_media_group_wake(f) ==
    /\ f \in DOMAIN flushTasks
    /\ flushTasks[f].pc = "sleeping"
    /\ LockFree
    /\ media_group_lock' = <<"flush", f>>
    /\ flushTasks' = [flushTasks EXCEPT ![f].pc = "locked"]
    /\ UNCHANGED <<media_group_cache, media_group_config, media_group_tasks,
                   itemPc, itemKey, arrivals, flushed, lateArrival>>
    /\ UNCHANGED <<task_is_active, taskToggles>>
    /\ UNCHANGED notGroupVars

\* A variant of the buffer check that reads the batch and leaves it buffered.
process_media_group_pop_keeps_buffer(f) ==
    /\ f \in DOMAIN flushTasks
    /\ flushTasks[f].pc = "locked"
    /\ LET k == flushTasks[f].key
       IN IF k \notin DOMAIN media_group_cache
          THEN flushTasks' = [flushTasks EXCEPT ![f].pc = "finally"]
          ELSE flushTasks' = [flushTasks EXCEPT
                      ![f].pc = "processing", ![f].found = TRUE,
                      ![f].messages = media_group_cache[k],
                      ![f].config = IF k \in DOMAIN media_group_config
                                    THEN <<media_group_config[k]>> ELSE <<>>]
    /\ media_group_lock' = <<>>
    /\ UNCHANGED <<media_group_cache, media_group_config>>
    /\ UNCHANGED <<media_group_tasks, itemPc, itemKey, arrivals, flushed, lateArrival>>
    /\ UNCHANGED <<task_is_active, taskToggles>>
    /\ UNCHANGED notGroupVars

\* A variant of the buffer check that goes on to processing with an empty
\* batch when the key is absent.
process_media_group_pop_unchecked(f) ==
    /\ f \in DOMAIN flushTasks
    /\ flushTasks[f].pc = "locked"
    /\ LET k == flushTasks[f].key
           present == k \in DOMAIN media_group_cache
       IN /\ flushTasks' = [flushTasks EXCEPT
                 ![f].pc = "processing", ![f].found = present,
                 ![f].messages = IF present THEN media_group_cache[k] ELSE <<>>,
                 ![f].config = IF k \in DOMAIN media_group_config
                               THEN <<media_group_config[k]>> ELSE <<>>]
          /\ media_group_cache' = DictPop(media_group_cache, k)
          /\ media_group_config' = DictPop(media_group_config, k)
    /\ media_group_lock' = <<>>
    /\ UNCHANGED <<media_group_tasks, itemPc, itemKey, arrivals, flushed, lateArrival>>
    /\ UNCHANGED <<task_is_active, taskToggles>>
    /\ UNCHANGED notGroupVars

\* The critical section of the flush (lines 1057-1063): a key that is absent is
\* a no-op, otherwise the buffer and the config are popped.
process_media_group_pop(f) ==
    /\ f \in DOMAIN flushTasks
    /\ flushTasks[f].pc = "locked"
    /\ LET k == flushTasks[f].key
       IN IF k \notin DOMAIN media_group_cache
          THEN /\ flushTasks' = [flushTasks EXCEPT ![f].pc = "finally"]
               /\ UNCHANGED <<media_group_cache, media_group_config>>
          ELSE /\ flushTasks' = [flushTasks EXCEPT
                      ![f].pc = "processing", ![f].found = TRUE,
                      ![f].messages = media_group_cache[k],
                      ![f].config = IF k \in DOMAIN media_group_config
                                    THEN <<media_group_config[k]>> ELSE <<>>]
               /\ media_group_cache' = DictPop(media_group_cache, k)
               /\ media_group_config' = DictPop(media_group_config, k)
    /\ media_group_lock' = <<>>
    /\ UNCHANGED <<media_group_tasks, itemPc, itemKey, arrivals, flushed, lateArrival>>
    /\ UNCHANGED <<task_is_active, taskToggles>>
    /\ UNCHANGED notGroupVars

\* The popped messages are processed as one unit outside the lock
\* (lines 1065-1263).
process_media_group_dispatch(f) ==
    /\ f \in DOMAIN flushTasks
    /\ flushTasks[f].pc = "processing"
    /\ flushed' = Append(flushed, [key |-> flushTasks[f].key,
                                   items |-> flushTasks[f].messages, task |-> f,
                                   config |-> flushTasks[f].config,
                                   active |-> task_is_active])
    /\ flushTasks' = [flushTasks EXCEPT ![f].pc = "finally"]
    /\ UNCHANGED <<media_group_cache, media_group_config, media_group_tasks,
                   media_group_lock, itemPc, itemKey, arrivals, lateArrival>>
    /\ UNCHANGED <<task_is_active, taskToggles>>
    /\ UNCHANGED notGroupVars

\* finally: the task reference of the key is dropped under the lock
\* (lines 1264-1267).
process_media_group_finally(f) ==
    /\ f \in DOMAIN flushTasks
    /\ flushTasks[f].pc = "finally"
    /\ LockFree
    /\ media_group_tasks' = DictPop(media_group_tasks, flushTasks[f].key)
    /\ flushTasks' = [flushTasks EXCEPT ![f].pc = "done"]
    /\ UNCHANGED <<media_group_cache, media_group_config, media_group_lock,
                   itemPc, itemKey, arrivals, flushed, lateArrival>>
    /\ UNCHANGED <<task_is_active, taskToggles>>
    /\ UNCHANGED notGroupVars

\* The task is switched off or on by its owner: the toggle command updates
\* tasks.is_active (handlers/task.py).
toggle_task ==
    /\ taskToggles < MaxToggles
    /\ taskToggles' = taskToggles + 1
    /\ task_is_active' = ~task_is_active
    /\ UNCHANGED <<media_group_cache, media_group_config, media_group_tasks,
                   media_group_lock, itemPc, itemKey, flushTasks, arrivals, flushed,
                   lateArrival>>
    /\ UNCHANGED notGroupVars

GroupNext ==
    \/ \E i \in Items, k \in GroupKeys : handle_media_group_enter(i, k)
    \/ \E i \in Items : handle_media_group_append(i)
    \/ \E f \in 1..NumItems : process_media_group_wake(f)
    \/ \E f \in 1..NumItems : process_media_group_pop(f)
    \/ \E f \in 1..NumItems : process_media_group_dispatch(f)
    \/ \E f \in 1..NumItems : process_media_group_finally(f)
    \/ toggle_task

\* _process_media_group_after_delay started for a cache key by a caller other
\* than the arrival handler (lines 1047-1054): the coroutine takes any key and
\* begins with the sleep, whether or not the key is buffered.
process_media_group_after_delay(k) ==
    /\ Len(flushTasks) < MaxTasksAtCall
    /\ flushTasks' = Append(flushTasks,
           [key |-> k, pc |-> "sleeping", found |-> FALSE,
            messages |-> <<>>, config |-> <<>>])
    /\ UNCHANGED <<media_group_cache, media_group_config, media_group_tasks,
                   media_group_lock, itemPc, itemKey, arrivals, flushed, lateArrival>>
    /\ UNCHANGED <<task_is_active, taskToggles>>
    /\ UNCHANGED notGroupVars

FlushIds == 1..(NumItems + MaxTasksAtCall)

FlushNext ==
    \/ \E i \in Items, k \in GroupKeys : handle_media_group_enter(i, k)
    \/ \E i \in Items : handle_media_group_append(i)
    \/ \E k \in GroupKeys : process_media_group_after_delay(k)
    \/ \E f \in FlushIds : process_media_group_wake(f)
    \/ \E f \in FlushIds : process_media_group_pop(f)
    \/ \E f \in FlushIds : process_media_group_dispatch(f)
    \/ \E f \in FlushIds : process_media_group_finally(f)
    \/ toggle_task


(***************************************************************************)
(* Rate limiter: RateLimiter.can_request and its three checks              *)
(*                                                                         *)
(* Time is counted in ticks, WindowTicks of them to the 60 seconds of the  *)
(* code.  The bucket holds a real number of tokens; it is kept multiplied  *)
(* by WindowTicks, which makes the refill of (tpm_limit / 60) tokens per   *)
(* second an exact integer, tpm_limit per tick.                            *)
(***************************************************************************)
NumModels == 1
WindowTicks == 2
MaxTime == 3
MaxDay == 1
MaxRateCalls == 3
MaxTokens == 3
TpmLimit == 2
RpmLimit == 2
MaxWaitCalls == 1
MaxUntilMidnight == 3
TpdLimit == 3

Models == 1..NumModels

\* Optional[int] limits: 0 stands for None (the code tests "if tpm_limit:").
TpmChoices == {0, TpmLimit}
RpmChoices == {0, RpmLimit}
TpdChoices == {0, TpdLimit}

Min(a, b) == IF a <= b THEN a ELSE b

RateInit ==
    /\ request_counters = <<>>
    /\ token_buckets = <<>>
    /\ daily_token_counters = <<>>
    /\ now = 0
    /\ today = 0
    /\ rateCalls = 0
    /\ lastDenied = "none"
    /\ admitLog = [k \in Models |-> <<>>]
    /\ tpmAlways = [k \in Models |-> TRUE]
    /\ rpmRun = [k \in Models |-> [ok |-> TRUE, calls |-> 0, admitted |-> 0,
                                   first |-> 0, wait |-> 0, by |-> "none"]]
    /\ lastWait = [rpm |-> 0, tpm |-> 0, tpd |-> 0, value |-> 0]
    /\ waitCalls = 0

\* _check_rpm: the counters after the check, and its verdict.
check_rpm(rc, model_name, rpm_limit) ==
    LET rc1 == IF model_name \notin DOMAIN rc
               THEN DictPut(rc, model_name, [count |-> 0, window_start |-> now])
               ELSE rc
        window_elapsed == now - rc1[model_name].window_start
        rc2 == IF window_elapsed >= WindowTicks
               THEN DictPut(rc1, model_name, [count |-> 0, window_start |-> now])
               ELSE rc1
    IN [ok |-> ~(rc2[model_name].count >= rpm_limit), st |-> rc2,
        wait |-> WindowTicks - window_elapsed]

\* bucket["tokens"] = min(tpm_limit, bucket["tokens"] + refill_rate * elapsed)
Refill(tokens, elapsed, tpm_limit) ==
    Min(tpm_limit * WindowTicks, tokens + tpm_limit * elapsed)

\* _check_tpm: the buckets after the check, and its verdict.
check_tpm(tb, model_name, tokens, tpm_limit) ==
    LET tb1 == IF model_name \notin DOMAIN tb
               THEN DictPut(tb, model_name,
                            [tokens |-> tpm_limit * WindowTicks, last_refill |-> now])
               ELSE tb
        elapsed == now - tb1[model_name].last_refill
        tb2 == IF elapsed > 0
               THEN DictPut(tb1, model_name,
                            [tokens |-> Refill(tb1[model_name].tokens, elapsed, tpm_limit),
                             last_refill |-> now])
               ELSE tb1
    IN [ok |-> ~(tb2[model_name].tokens < tokens * WindowTicks), st |-> tb2]

\* A daily check that keeps yesterday's sum.
check_tpd_without_reset(dc, model_name, tokens, tpd_limit) ==
    LET dc1 == IF model_name \notin DOMAIN dc
               THEN DictPut(dc, model_name, [tokens |-> 0, date |-> today])
               ELSE dc
    IN [ok |-> ~(dc1[model_name].tokens + tokens > tpd_limit),
        st |-> [dc1 EXCEPT ![model_name].date = today]]

\* _check_tpd: the daily counters after the check, and its verdict.
check_tpd(dc, model_name, tokens, tpd_limit) ==
    LET dc1 == IF model_name \notin DOMAIN dc
               THEN DictPut(dc, model_name, [tokens |-> 0, date |-> today])
               ELSE dc
        dc2 == IF dc1[model_name].date # today
               THEN DictPut(dc1, model_name, [tokens |-> 0, date |-> today])
               ELSE dc1
    IN [ok |-> ~(dc2[model_name].tokens + tokens > tpd_limit), st |-> dc2]

\* A record step that leaves the request count as the check left it.
record_rpm_forgotten(rc, model_name) == rc

\* _record_request, the RPM counter
record_rpm(rc, model_name) ==
    IF model_name \in DOMAIN rc
    THEN [rc EXCEPT ![model_name].count = @ + 1]
    ELSE rc

\* _record_request, the TPD counter
record_tpd(dc, model_name, tokens) ==
    IF model_name \in DOMAIN dc /\ dc[model_name].date = today
    THEN [dc EXCEPT ![model_name].tokens = @ + tokens]
    ELSE dc

\* A record step that leaves the bucket as the check left it.
record_tpm_forgotten(tb, model_name, tokens) == tb

\* _record_request, the TPM bucket
record_tpm(tb, model_name, tokens) ==
    IF model_name \in DOMAIN tb
    THEN [tb EXCEPT ![model_name].tokens = @ - tokens * WindowTicks]
    ELSE tb

\* _record_request runs only when no check has returned.
Recorded(admitted, checked, recorded) ==
    IF admitted THEN recorded ELSE checked

\* The admissions of the last minute, the new one included.
LogAdmission(log, tokens) ==
    SelectSeq(Append(log, [time |-> now, tokens |-> tokens]),
              LAMBDA e : e.time >= now - WindowTicks)

\* The outcome of can_request: the three checks in order, each one run only
\* when its limit is given and the checks before it passed, then the record.
CanRequestOutcome(model_name, tokens, tpm_limit, rpm_limit, tpd_limit) ==
    LET r == IF rpm_limit # 0 THEN check_rpm(request_counters, model_name, rpm_limit)
             ELSE [ok |-> TRUE, st |-> request_counters, wait |-> 0]
        m == IF r.ok /\ tpm_limit # 0
             THEN check_tpm(token_buckets, model_name, tokens, tpm_limit)
             ELSE [ok |-> TRUE, st |-> token_buckets]
        d == IF r.ok /\ m.ok /\ tpd_limit # 0
             THEN check_tpd(daily_token_counters, model_name, tokens, tpd_limit)
             ELSE [ok |-> TRUE, st |-> daily_token_counters]
        admitted == r.ok /\ m.ok /\ d.ok
    IN [admitted |-> admitted,
        by |-> IF ~r.ok THEN "rpm" ELSE IF ~m.ok THEN "tpm"
               ELSE IF ~d.ok THEN "tpd" ELSE "none",
        wait |-> IF ~r.ok THEN r.wait ELSE 0,
        rc |-> Recorded(admitted, r.st, record_rpm(r.st, model_name)),
        tb |-> Recorded(admitted, m.st, record_tpm(m.st, model_name, tokens)),
        dc |-> Recorded(admitted, d.st, record_tpd(d.st, model_name, tokens))]

\* The calls of a key from its first one on, as long as every call passes
\* rpm_limit = RpmLimit, falls within 60 seconds of the first one and is not
\* denied by another limit; wait is the "Reset in" time of the last call.
RpmRunAfter(run, rpm_limit, o) ==
    IF /\ run.ok
       /\ rpm_limit = RpmLimit
       /\ o.by \notin {"tpm", "tpd"}
       /\ (run.calls = 0 \/ now - run.first < WindowTicks)
    THEN [ok |-> TRUE, calls |-> run.calls + 1,
          admitted |-> run.admitted + (IF o.admitted THEN 1 ELSE 0),
          first |-> IF run.calls = 0 THEN now ELSE run.first,
          wait |-> o.wait, by |-> o.by]
    ELSE [ok |-> FALSE, calls |-> 0, admitted |-> 0, first |-> 0, wait |-> 0,
          by |-> "none"]

can_request(model_name, tokens, tpm_limit, rpm_limit, tpd_limit) ==
    /\ rateCalls < MaxRateCalls
    /\ LET o == CanRequestOutcome(model_name, tokens, tpm_limit, rpm_limit, tpd_limit)
       IN /\ request_counters' = o.rc
          /\ token_buckets' = o.tb
          /\ daily_token_counters' = o.dc
          /\ lastDenied' = o.by
          /\ admitLog' = IF o.admitted
                         THEN [admitLog EXCEPT ![model_name] = LogAdmission(@, tokens)]
                         ELSE admitLog
          /\ rpmRun' = [rpmRun EXCEPT ![model_name] = RpmRunAfter(@, rpm_limit, o)]
    /\ rateCalls' = rateCalls + 1
    /\ tpmAlways' = [tpmAlways EXCEPT ![model_name] = @ /\ tpm_limit # 0]
    /\ UNCHANGED <<now, today, lastWait, waitCalls>>
    /\ UNCHANGED notRateVars

\* The clock advances by one tick.
Tick ==
    /\ now < MaxTime
    /\ now' = now + 1
    /\ admitLog' = [k \in Models |->
                       SelectSeq(admitLog[k], LAMBDA e : e.time >= now + 1 - WindowTicks)]
    /\ UNCHANGED <<request_counters, token_buckets, daily_token_counters, today,
                   rateCalls, lastDenied, tpmAlways, rpmRun, lastWait, waitCalls>>
    /\ UNCHANGED notRateVars

\* Midnight passes: the calendar day changes.
NextDay ==
    /\ today < MaxDay
    /\ today' = today + 1
    /\ UNCHANGED <<request_counters, token_buckets, daily_token_counters, now,
                   rateCalls, lastDenied, admitLog, tpmAlways, rpmRun, lastWait,
                   waitCalls>>
    /\ UNCHANGED notRateVars

\* get_wait_time.  A wait is counted in TpmLimit-ths of a tick, which makes
\* tokens_needed / (tpm_limit / 60) an integer.
\*
\* 60 - window_elapsed, appended when the count has reached rpm_limit and the
\* window is not over; 0 stands for nothing appended.
RpmWait(model_name, rpm_limit) ==
    IF /\ rpm_limit # 0
       /\ model_name \in DOMAIN request_counters
       /\ request_counters[model_name].count >= rpm_limit
       /\ now - request_counters[model_name].window_start < WindowTicks
    THEN (WindowTicks - (now - request_counters[model_name].window_start)) * TpmLimit
    ELSE 0

\* tokens_needed / (tpm_limit / 60), appended when the bucket as it was last
\* left holds less than estimated_tokens.
TpmWait(model_name, estimated_tokens, tpm_limit) ==
    IF /\ tpm_limit # 0
       /\ model_name \in DOMAIN token_buckets
       /\ token_buckets[model_name].tokens < estimated_tokens * WindowTicks
    THEN ((estimated_tokens * WindowTicks - token_buckets[model_name].tokens) * TpmLimit)
             \div tpm_limit
    ELSE 0

\* The time until tomorrow, appended when today's counter with
\* estimated_tokens passes tpd_limit and nothing of the limit remains.
TpdWait(model_name, estimated_tokens, tpd_limit, until_midnight) ==
    IF /\ tpd_limit # 0
       /\ model_name \in DOMAIN daily_token_counters
       /\ daily_token_counters[model_name].date = today
       /\ daily_token_counters[model_name].tokens + estimated_tokens > tpd_limit
       /\ tpd_limit - daily_token_counters[model_name].tokens <= 0
    THEN until_midnight * TpmLimit
    ELSE 0

\* A result that is the smallest of the collected waits.
min_wait(wait_times) ==
    IF wait_times = {} THEN 0
    ELSE CHOOSE w \in wait_times : \A v \in wait_times : w <= v

\* max(wait_times) if wait_times else 0
max_wait(wait_times) ==
    IF wait_times = {} THEN 0
    ELSE CHOOSE w \in wait_times : \A v \in wait_times : w >= v

\* The time to the next midnight, in ticks, at the instant of a call.
MidnightChoices == {1, MaxUntilMidnight}

get_wait_time(model_name, estimated_tokens, tpm_limit, rpm_limit, tpd_limit, until_midnight) ==
    /\ waitCalls < MaxWaitCalls
    /\ LET rpm == RpmWait(model_name, rpm_limit)
           tpm == TpmWait(model_name, estimated_tokens, tpm_limit)
           tpd == TpdWait(model_name, estimated_tokens, tpd_limit, until_midnight)
           wait_times == {w \in {rpm, tpm, tpd} : w # 0}
       IN lastWait' = [rpm |-> rpm, tpm |-> tpm, tpd |-> tpd,
                       value |-> max_wait(wait_times)]
    /\ waitCalls' = waitCalls + 1
    /\ UNCHANGED <<request_counters, token_buckets, daily_token_counters, now, today,
                   rateCalls, lastDenied, admitLog, tpmAlways, rpmRun>>
    /\ UNCHANGED notRateVars

RateNext ==
    \/ \E k \in Models, t \in 1..MaxTokens,
          tpm \in TpmChoices, rpm \in RpmChoices, tpd \in TpdChoices :
          can_request(k, t, tpm, rpm, tpd)
    \/ Tick
    \/ NextDay

\* The limiter with its callers asking for the wait time as well: up to
\* MaxCallsBeforeWait can_request calls, followed up to the MaxWaitCalls-th
\* answer of get_wait_time.
MaxCallsBeforeWait == 2

WaitNext ==
    \/ \E k \in Models, t \in 1..MaxTokens,
          tpm \in TpmChoices, rpm \in RpmChoices, tpd \in TpdChoices :
          /\ rateCalls < MaxCallsBeforeWait
          /\ waitCalls < MaxWaitCalls
          /\ can_request(k, t, tpm, rpm, tpd)
    \/ waitCalls < MaxWaitCalls /\ Tick
    \/ waitCalls < MaxWaitCalls /\ NextDay
    \/ \E k \in Models, t \in 1..MaxTokens, tpm \in TpmChoices, rpm \in RpmChoices,
          tpd \in TpdChoices, u \in MidnightChoices :
          get_wait_time(k, t, tpm, rpm, tpd, u)

(***************************************************************************)
(* The limiter called with the same tpd_limit at every call                *)
(***************************************************************************)
Days == 0..MaxDay

DailyInit == dayAdmitted = [k \in Models |-> [d \in Days |-> 0]]

\* can_request with tpd_limit = TpdLimit; the tokens of an admitted call are
\* added to the day's sum.
can_request_daily(model_name, tokens, tpm_limit, rpm_limit) ==
    /\ rateCalls < MaxRateCalls
    /\ LET o == CanRequestOutcome(model_name, tokens, tpm_limit, rpm_limit, TpdLimit)
       IN /\ request_counters' = o.rc
          /\ token_buckets' = o.tb
          /\ daily_token_counters' = o.dc
          /\ lastDenied' = o.by
          /\ admitLog' = IF o.admitted
                         THEN [admitLog EXCEPT ![model_name] = LogAdmission(@, tokens)]
                         ELSE admitLog
          /\ rpmRun' = [rpmRun EXCEPT ![model_name] = RpmRunAfter(@, rpm_limit, o)]
          /\ dayAdmitted' = IF o.admitted
                           THEN [dayAdmitted EXCEPT ![model_name][today] = @ + tokens]
                           ELSE dayAdmitted
    /\ rateCalls' = rateCalls + 1
    /\ tpmAlways' = [tpmAlways EXCEPT ![model_name] = @ /\ tpm_limit # 0]
    /\ UNCHANGED <<now, today, lastWait, waitCalls>>
    /\ UNCHANGED notDailyVars

DailyNext ==
    \/ \E k \in Models, t \in 1..MaxTokens, tpm \in TpmChoices, rpm \in RpmChoices :
          can_request_daily(k, t, tpm, rpm)
    \/ Tick
    \/ NextDay

(***************************************************************************)
(* Concurrent can_request calls: the body of can_request under             *)
(* "async with self.lock", taken apart into the checks and the record      *)
(***************************************************************************)
NumRequesters == 2
MaxRounds == 2

Requesters == 1..NumRequesters

\* The concurrent calls are made on one key.
SharedModel == CHOOSE k \in Models : TRUE

NoArgs == [tokens |-> 0, tpm_limit |-> 0, rpm_limit |-> 0, tpd_limit |-> 0]

LimiterInit ==
    /\ limiter_lock = {}
    /\ reqPc = [c \in Requesters |-> "idle"]
    /\ reqArgs = [c \in Requesters |-> NoArgs]
    /\ reqBy = [c \in Requesters |-> "none"]
    /\ reqBase = [rc |-> <<>>, tb |-> <<>>, dc |-> <<>>]
    /\ reqRounds = 0

\* A lock that lets every requester in.
LockIgnored == TRUE

\* asyncio.Lock: acquire returns only while nobody holds the lock.
LockAvailable == limiter_lock = {}

\* The three checks of can_request on the limiter state st, in order, each
\* one run only when its limit is given and the checks before it passed.
Checks(st, model_name, a) ==
    LET r == IF a.rpm_limit # 0 THEN check_rpm(st.rc, model_name, a.rpm_limit)
             ELSE [ok |-> TRUE, st |-> st.rc, wait |-> 0]
        m == IF r.ok /\ a.tpm_limit # 0
             THEN check_tpm(st.tb, model_name, a.tokens, a.tpm_limit)
             ELSE [ok |-> TRUE, st |-> st.tb]
        d == IF r.ok /\ m.ok /\ a.tpd_limit # 0
             THEN check_tpd(st.dc, model_name, a.tokens, a.tpd_limit)
             ELSE [ok |-> TRUE, st |-> st.dc]
    IN [by |-> IF ~r.ok THEN "rpm" ELSE IF ~m.ok THEN "tpm"
               ELSE IF ~d.ok THEN "tpd" ELSE "none",
        st |-> [rc |-> r.st, tb |-> m.st, dc |-> d.st]]

\* _record_request on the limiter state st.
RecordRequest(st, model_name, tokens) ==
    [rc |-> record_rpm(st.rc, model_name),
     tb |-> record_tpm(st.tb, model_name, tokens),
     dc |-> record_tpd(st.dc, model_name, tokens)]

\* One whole call of can_request on the limiter state st.
CanRequestFrom(st, model_name, a) ==
    LET c == Checks(st, model_name, a)
    IN [by |-> c.by,
        st |-> IF c.by = "none" THEN RecordRequest(c.st, model_name, a.tokens)
               ELSE c.st]

LimiterState ==
    [rc |-> request_counters, tb |-> token_buckets, dc |-> daily_token_counters]

\* A requester calls can_request and waits for the lock (line 45).  The state
\* in which the first call of a round is made is kept for comparison.
request_call(c, tokens, tpm_limit, rpm_limit, tpd_limit) ==
    /\ reqRounds < MaxRounds
    /\ reqPc[c] = "idle"
    /\ reqPc' = [reqPc EXCEPT ![c] = "waiting"]
    /\ reqArgs' = [reqArgs EXCEPT ![c] = [tokens |-> tokens, tpm_limit |-> tpm_limit,
                                          rpm_limit |-> rpm_limit, tpd_limit |-> tpd_limit]]
    /\ reqBase' = IF \A o \in Requesters : reqPc[o] = "idle"
                  THEN LimiterState ELSE reqBase
    /\ UNCHANGED <<limiter_lock, reqBy, reqRounds>>
    /\ UNCHANGED rateVars
    /\ UNCHANGED notLimiterVars

\* The lock is acquired (line 45).
request_acquire(c) ==
    /\ reqPc[c] = "waiting"
    /\ LockAvailable
    /\ limiter_lock' = limiter_lock \cup {c}
    /\ reqPc' = [reqPc EXCEPT ![c] = "checking"]
    /\ UNCHANGED <<reqArgs, reqBy, reqBase, reqRounds>>
    /\ UNCHANGED rateVars
    /\ UNCHANGED notLimiterVars

\* The checks (lines 46-65); a denial returns, which releases the lock.
request_check(c) ==
    /\ reqPc[c] = "checking"
    /\ LET o == Checks(LimiterState, SharedModel, reqArgs[c])
       IN /\ request_counters' = o.st.rc
          /\ token_buckets' = o.st.tb
          /\ daily_token_counters' = o.st.dc
          /\ reqBy' = [reqBy EXCEPT ![c] = o.by]
          /\ reqPc' = [reqPc EXCEPT ![c] = IF o.by = "none" THEN "recording" ELSE "done"]
          /\ limiter_lock' = IF o.by = "none" THEN limiter_lock ELSE limiter_lock \ {c}
    /\ UNCHANGED <<reqArgs, reqBase, reqRounds>>
    /\ UNCHANGED <<now, today, rateCalls, lastDenied, admitLog, tpmAlways, rpmRun,
                   lastWait, waitCalls>>
    /\ UNCHANGED notLimiterVars

\* The record and the return, which releases the lock (lines 67-69).
request_record(c) ==
    /\ reqPc[c] = "recording"
    /\ LET st == RecordRequest(LimiterState, SharedModel, reqArgs[c].tokens)
       IN /\ request_counters' = st.rc
          /\ token_buckets' = st.tb
          /\ daily_token_counters' = st.dc
    /\ reqPc' = [reqPc EXCEPT ![c] = "done"]
    /\ limiter_lock' = limiter_lock \ {c}
    /\ UNCHANGED <<reqArgs, reqBy, reqBase, reqRounds>>
    /\ UNCHANGED <<now, today, rateCalls, lastDenied, admitLog, tpmAlways, rpmRun,
                   lastWait, waitCalls>>
    /\ UNCHANGED notLimiterVars

\* The calls of a round have returned and the requesters are free to call again.
requests_return ==
    /\ \A c \in Requesters : reqPc[c] \in {"idle", "done"}
    /\ \E c \in Requesters : reqPc[c] = "done"
    /\ reqPc' = [c \in Requesters |-> "idle"]
    /\ reqArgs' = [c \in Requesters |-> NoArgs]
    /\ reqBy' = [c \in Requesters |-> "none"]
    /\ reqRounds' = reqRounds + 1
    /\ UNCHANGED <<limiter_lock, reqBase>>
    /\ UNCHANGED rateVars
    /\ UNCHANGED notLimiterVars

LimiterNext ==
    \/ \E c \in Requesters, t \in 1..MaxTokens,
          tpm \in TpmChoices, rpm \in RpmChoices, tpd \in TpdChoices :
          request_call(c, t, tpm, rpm, tpd)
    \/ \E c \in Requesters : request_acquire(c)
    \/ \E c \in Requesters : request_check(c)
    \/ \E c \in Requesters : request_record(c)
    \/ requests_return

(***************************************************************************)
(* Rule engine caches: AIRuleEngine._get_ai_rules, _get_entity_rules,      *)
(* _get_context_rules over rule_cache, entity_cache, context_cache         *)
(***************************************************************************)
CACHE_TTL == 30

TickSeconds == 15
MaxCacheTicks == 2
NumCacheTasks == 2
NumLookups == 2
MaxLookups == 3
MaxStoreCalls == 2
MaxStoreWrites == 1
MaxPriority == 1
MaxClears == 1

CacheNames == {"rule_cache", "entity_cache", "context_cache"}
CacheTasks == 1..NumCacheTasks
Lookups == 1..NumLookups

Row(id, active, prio) == [id |-> id, is_active |-> active, priority |-> prio]

\* Contents a rule table can have for one task, rows in insertion order.
StoreTables ==
    { <<>>,
      <<Row(1, TRUE, 0), Row(2, TRUE, MaxPriority)>>,
      <<Row(1, FALSE, MaxPriority), Row(2, TRUE, 0)>> }

\* [r for r in rules if r.get('is_active', True)]
ActiveRows(rows) == SelectSeq(rows, LAMBDA r : r.is_active)

\* sort(key=priority, reverse=True): a stable sort, highest priority first
RECURSIVE ByPriorityFrom(_, _)
ByPriorityFrom(rows, p) ==
    IF p < 0 THEN <<>>
    ELSE SelectSeq(rows, LAMBDA r : r.priority = p) \o ByPriorityFrom(rows, p - 1)

ActiveByPriority(rows) == ByPriorityFrom(ActiveRows(rows), MaxPriority)

\* db.get_task_rules / get_entity_replacements / get_context_rules:
\* WHERE task_id = $1 AND is_active = true ORDER BY priority DESC
StoreQuery(c, task_id) == ActiveByPriority(ruleStore[c][task_id])

CacheInit ==
    /\ caches = [c \in CacheNames |-> <<>>]
    /\ ruleStore \in [CacheNames -> [CacheTasks -> {<<>>}]]
    /\ cacheNow = 0
    /\ lookupPc = [l \in Lookups |-> "idle"]
    /\ lookupArgs = [l \in Lookups |-> [cache |-> "rule_cache", task_id |-> 1]]
    /\ lookupRows = [l \in Lookups |-> <<>>]
    /\ lastResult = [hit |-> FALSE, failed |-> FALSE, data |-> <<>>]
    /\ lookupCount = 0
    /\ storeCalls = 0
    /\ clearLog = <<>>
    /\ preClearReads = [lookups |-> {}, entries |-> {}]

\* An entry still served at the very age the TTL names.
is_cache_valid_inclusive(cache, task_id) ==
    /\ task_id \in DOMAIN cache
    /\ (cacheNow - cache[task_id].timestamp) <= CACHE_TTL

\* _is_cache_valid
is_cache_valid(cache, task_id) ==
    /\ task_id \in DOMAIN cache
    /\ (cacheNow - cache[task_id].timestamp) < CACHE_TTL

\* _set_cache
set_cache(cache, task_id, data) ==
    DictPut(cache, task_id, [data |-> data, timestamp |-> cacheNow])

\* History of the rows read before a clear.  clear_cache(owner) finds the
\* lookups of that owner that hold rows the store has already answered; the
\* entry such a lookup writes holds those rows until it is replaced or cleared.
ReadsAfterClear(task_id) ==
    [lookups |-> preClearReads.lookups \cup
                    {l \in Lookups : /\ lookupPc[l] = "fetched"
                                     /\ task_id = lookupArgs[l].task_id},
     entries |-> {e \in preClearReads.entries : task_id # 0 /\ e[2] # task_id}]

ReadsAfterFinish(l) ==
    LET e == <<lookupArgs[l].cache, lookupArgs[l].task_id>>
    IN [lookups |-> preClearReads.lookups \ {l},
        entries |-> IF l \in preClearReads.lookups
                    THEN preClearReads.entries \cup {e}
                    ELSE preClearReads.entries \ {e}]

\* A lookup up to its first await: a valid entry is returned at once,
\* otherwise the store is called.
get_rules_begin(l, c, task_id) ==
    /\ lookupPc[l] = "idle"
    /\ lookupCount < MaxLookups
    /\ lookupCount' = lookupCount + 1
    /\ IF is_cache_valid(caches[c], task_id)
       THEN /\ lastResult' = [hit |-> TRUE, failed |-> FALSE,
                              data |-> caches[c][task_id].data]
            /\ UNCHANGED <<lookupPc, lookupArgs, storeCalls>>
       ELSE /\ storeCalls < MaxStoreCalls
            /\ storeCalls' = storeCalls + 1
            /\ lookupPc' = [lookupPc EXCEPT ![l] = "awaiting"]
            /\ lookupArgs' = [lookupArgs EXCEPT ![l] = [cache |-> c, task_id |-> task_id]]
            /\ UNCHANGED lastResult
    /\ UNCHANGED <<caches, ruleStore, cacheNow, lookupRows>>
    /\ UNCHANGED <<clearLog, preClearReads>>
    /\ UNCHANGED notCacheVars

\* The store runs the query of an awaiting lookup.
get_rules_store_returns(l) ==
    /\ lookupPc[l] = "awaiting"
    /\ lookupRows' = [lookupRows EXCEPT
                         ![l] = StoreQuery(lookupArgs[l].cache, lookupArgs[l].task_id)]
    /\ lookupPc' = [lookupPc EXCEPT ![l] = "fetched"]
    /\ UNCHANGED <<caches, ruleStore, cacheNow, lookupArgs, lastResult, lookupCount,
                   storeCalls>>
    /\ UNCHANGED <<clearLog, preClearReads>>
    /\ UNCHANGED notCacheVars

\* A failure handler that caches the empty list it returns.
get_rules_store_raises_caching(l) ==
    /\ lookupPc[l] = "awaiting"
    /\ lookupPc' = [lookupPc EXCEPT ![l] = "idle"]
    /\ lastResult' = [hit |-> FALSE, failed |-> TRUE, data |-> <<>>]
    /\ caches' = [caches EXCEPT
                     ![lookupArgs[l].cache] = set_cache(@, lookupArgs[l].task_id, <<>>)]
    /\ UNCHANGED <<ruleStore, cacheNow, lookupArgs, lookupRows, lookupCount, storeCalls>>
    /\ UNCHANGED <<clearLog, preClearReads>>
    /\ UNCHANGED notCacheVars

\* The store call raises: except Exception: return []
get_rules_store_raises(l) ==
    /\ lookupPc[l] = "awaiting"
    /\ lookupPc' = [lookupPc EXCEPT ![l] = "idle"]
    /\ lastResult' = [hit |-> FALSE, failed |-> TRUE, data |-> <<>>]
    /\ UNCHANGED <<caches, ruleStore, cacheNow, lookupArgs, lookupRows, lookupCount,
                   storeCalls>>
    /\ UNCHANGED <<clearLog, preClearReads>>
    /\ UNCHANGED notCacheVars

\* The lookup resumes with the rows: filter, sort, _set_cache, return.
get_rules_finish(l) ==
    /\ lookupPc[l] = "fetched"
    /\ LET c == lookupArgs[l].cache
           active_rules == ActiveByPriority(lookupRows[l])
       IN /\ caches' = [caches EXCEPT
                           ![c] = set_cache(@, lookupArgs[l].task_id, active_rules)]
          /\ lastResult' = [hit |-> FALSE, failed |-> FALSE, data |-> active_rules]
    /\ lookupPc' = [lookupPc EXCEPT ![l] = "idle"]
    /\ lookupRows' = [lookupRows EXCEPT ![l] = <<>>]
    /\ preClearReads' = ReadsAfterFinish(l)
    /\ UNCHANGED <<ruleStore, cacheNow, lookupArgs, lookupCount, storeCalls>>
    /\ UNCHANGED clearLog
    /\ UNCHANGED notCacheVars

\* The number of cache entries a task has.
EntriesOf(task_id) == Cardinality({c \in CacheNames : task_id \in DOMAIN caches[c]})

\* A clear that empties the three caches whatever its argument.
clear_cache_of_everybody(task_id) ==
    /\ Len(clearLog) < MaxClears
    /\ clearLog' = Append(clearLog, [task_id |-> task_id, removed |-> EntriesOf(task_id)])
    /\ preClearReads' = ReadsAfterClear(task_id)
    /\ caches' = [c \in CacheNames |-> <<>>]
    /\ UNCHANGED <<ruleStore, cacheNow, lookupPc, lookupArgs, lookupRows, lastResult,
                   lookupCount, storeCalls>>
    /\ UNCHANGED notCacheVars

\* clear_cache(task_id): "if task_id:" is false for None and for 0.
clear_cache(task_id) ==
    /\ Len(clearLog) < MaxClears
    /\ clearLog' = Append(clearLog, [task_id |-> task_id, removed |-> EntriesOf(task_id)])
    /\ preClearReads' = ReadsAfterClear(task_id)
    /\ caches' = IF task_id # 0
                 THEN [c \in CacheNames |-> DictPop(caches[c], task_id)]
                 ELSE [c \in CacheNames |-> <<>>]
    /\ UNCHANGED <<ruleStore, cacheNow, lookupPc, lookupArgs, lookupRows, lastResult,
                   lookupCount, storeCalls>>
    /\ UNCHANGED notCacheVars

\* The rules of a task are edited in the store.
StoreWrites ==
    Cardinality({ct \in CacheNames \X CacheTasks : ruleStore[ct[1]][ct[2]] # <<>>})

store_write(c, task_id, rows) ==
    /\ StoreWrites < MaxStoreWrites
    /\ ruleStore[c][task_id] = <<>>
    /\ rows # <<>>
    /\ ruleStore' = [ruleStore EXCEPT ![c][task_id] = rows]
    /\ UNCHANGED <<caches, cacheNow, lookupPc, lookupArgs, lookupRows, lastResult,
                   lookupCount, storeCalls>>
    /\ UNCHANGED <<clearLog, preClearReads>>
    /\ UNCHANGED notCacheVars

\* TickSeconds pass.
CacheTick ==
    /\ cacheNow < MaxCacheTicks * TickSeconds
    /\ cacheNow' = cacheNow + TickSeconds
    /\ UNCHANGED <<caches, ruleStore, lookupPc, lookupArgs, lookupRows, lastResult,
                   lookupCount, storeCalls>>
    /\ UNCHANGED <<clearLog, preClearReads>>
    /\ UNCHANGED notCacheVars

CacheNext ==
    \/ \E l \in Lookups, c \in CacheNames, t \in CacheTasks : get_rules_begin(l, c, t)
    \/ \E l \in Lookups : get_rules_store_returns(l)
    \/ \E l \in Lookups : get_rules_store_raises(l)
    \/ \E l \in Lookups : get_rules_finish(l)
    \/ \E t \in {0} \cup CacheTasks : clear_cache(t)
    \/ \E c \in CacheNames, t \in CacheTasks, rows \in StoreTables : store_write(c, t, rows)
    \/ CacheTick

(***************************************************************************)
(* Job queue: QueueManager.process_queue, QueueWorker.process_job and the  *)
(* queue_jobs table                                                        *)
(***************************************************************************)
MaxWorkers == 2
MaxJobs == 3
MaxAttempts == 2
MaxJobPriority == 1
MaxStoreFaults == 1

JobTypes == {"video_process", "cleanup"}
\* The types main.py registers a handler for, among JobTypes.
HandlerTypes == {"video_process"}

JobIds == 1..Len(queue_jobs)

QueueInit ==
    /\ queue_jobs = <<>>
    /\ is_running = FALSE
    /\ job_handlers = {}
    /\ loopPc = "not_started"
    /\ workers = <<>>
    /\ jobHist = <<>>
    /\ storeFaults = 0
    /\ stopCalled = FALSE

\* db.add_queue_job: INSERT ... status 'pending', attempts 0
add_queue_job(type, priority, max_attempts) ==
    /\ Len(queue_jobs) < MaxJobs
    /\ queue_jobs' = Append(queue_jobs,
                            [type |-> type, priority |-> priority, status |-> "pending",
                             attempts |-> 0, max_attempts |-> max_attempts])
    /\ jobHist' = Append(jobHist, [invoked |-> 0, returned |-> FALSE])
    /\ UNCHANGED <<is_running, job_handlers, loopPc, workers, storeFaults, stopCalled>>
    /\ UNCHANGED notQueueVars

register_handler(job_type) ==
    /\ job_type \notin job_handlers
    /\ job_handlers' = job_handlers \cup {job_type}
    /\ UNCHANGED <<queue_jobs, is_running, loopPc, workers, jobHist, storeFaults,
                   stopCalled>>
    /\ UNCHANGED notQueueVars

\* QueueManager.start, called once by main.py
start ==
    /\ loopPc = "not_started"
    /\ is_running' = TRUE
    /\ loopPc' = "poll"
    /\ UNCHANGED <<queue_jobs, job_handlers, workers, jobHist, storeFaults, stopCalled>>
    /\ UNCHANGED notQueueVars

\* QueueManager.stop
stop ==
    /\ is_running
    /\ is_running' = FALSE
    /\ stopCalled' = TRUE
    /\ UNCHANGED <<queue_jobs, job_handlers, loopPc, workers, jobHist, storeFaults>>
    /\ UNCHANGED notQueueVars

\* ORDER BY priority DESC, created_at ASC
RECURSIVE OrderedIds(_)
OrderedIds(S) ==
    IF S = {} THEN <<>>
    ELSE LET j == CHOOSE x \in S :
                      \A y \in S : \/ queue_jobs[x].priority > queue_jobs[y].priority
                                   \/ /\ queue_jobs[x].priority = queue_jobs[y].priority
                                      /\ x <= y
         IN <<j>> \o OrderedIds(S \ {j})

\* seq[:n]
Take(seq, n) == SubSeq(seq, 1, Min(n, Len(seq)))

\* A fetch without the WHERE clause: jobs of every status.
get_pending_jobs_any_status(limit) == Take(OrderedIds(JobIds), limit)

\* A fetch that ignores the priority: oldest first.
get_pending_jobs_oldest_first(limit) ==
    Take(SelectSeq([i \in JobIds |-> i], LAMBDA j : queue_jobs[j].status = "pending"), limit)

\* db.get_pending_jobs(limit)
get_pending_jobs(limit) ==
    Take(OrderedIds({j \in JobIds : queue_jobs[j].status = "pending"}), limit)

\* A cycle that starts every job it fetched.
WholeBatch(jobs) == jobs

\* for job in jobs[:self.max_workers]
Batch(jobs) == Take(jobs, MaxWorkers)

\* A loop that creates a worker task for every job of the batch.
SpawnedWhateverType(jobs) == {Batch(jobs)[i] : i \in 1..Len(Batch(jobs))}

\* The jobs of the batch for which a worker task is created.
Spawned(jobs) ==
    {Batch(jobs)[i] : i \in {n \in 1..Len(Batch(jobs)) :
                                queue_jobs[Batch(jobs)[n]].type \in job_handlers}}

\* db.update_job_status: SET status = $1, ..., attempts = attempts + 1
update_job_status(job_id, status) ==
    [queue_jobs EXCEPT ![job_id].status = status, ![job_id].attempts = @ + 1]

\* The store call made at this step may raise.
StoreAnswers == IF storeFaults < MaxStoreFaults THEN {TRUE, FALSE} ELSE {TRUE}

\* One pass of the while loop of process_queue up to its next wait.
process_queue_poll(ok) ==
    /\ loopPc = "poll"
    /\ IF ~is_running
       THEN /\ loopPc' = "exited"
            /\ UNCHANGED <<workers, storeFaults>>
       ELSE IF ~ok
       THEN /\ loopPc' = "sleep5"
            /\ storeFaults' = storeFaults + 1
            /\ UNCHANGED workers
       ELSE LET jobs == get_pending_jobs(MaxWorkers * 2)
            IN /\ IF jobs = <<>>
                  THEN /\ loopPc' = "sleep1"
                       /\ UNCHANGED workers
                  ELSE /\ workers' = [j \in Spawned(jobs) |->
                                         [pc |-> "start",
                                          attempts |-> queue_jobs[j].attempts,
                                          max_attempts |-> queue_jobs[j].max_attempts]]
                       /\ loopPc' = IF Spawned(jobs) # {} THEN "gather" ELSE "poll"
               /\ UNCHANGED storeFaults
    /\ UNCHANGED <<queue_jobs, is_running, job_handlers, jobHist, stopCalled>>
    /\ UNCHANGED notQueueVars

\* asyncio.sleep(1) or asyncio.sleep(5) is over.
process_queue_wake ==
    /\ loopPc \in {"sleep1", "sleep5"}
    /\ loopPc' = "poll"
    /\ UNCHANGED <<queue_jobs, is_running, job_handlers, workers, jobHist, storeFaults,
                   stopCalled>>
    /\ UNCHANGED notQueueVars

\* asyncio.gather(*tasks, return_exceptions=True) returns.
process_queue_gathered ==
    /\ loopPc = "gather"
    /\ \A j \in DOMAIN workers : workers[j].pc = "done"
    /\ workers' = <<>>
    /\ loopPc' = "poll"
    /\ UNCHANGED <<queue_jobs, is_running, job_handlers, jobHist, storeFaults, stopCalled>>
    /\ UNCHANGED notQueueVars

WorkerAt(j, pc) == j \in DOMAIN workers /\ workers[j].pc = pc

\* await db.update_job_status(job_id, "processing"), then the handler is called
process_job_mark(j, ok) ==
    /\ WorkerAt(j, "start")
    /\ IF ok
       THEN /\ queue_jobs' = update_job_status(j, "processing")
            /\ workers' = [workers EXCEPT ![j].pc = "handler"]
            /\ jobHist' = [jobHist EXCEPT ![j].invoked = @ + 1]
            /\ UNCHANGED storeFaults
       ELSE /\ workers' = [workers EXCEPT ![j].pc = "except"]
            /\ storeFaults' = storeFaults + 1
            /\ UNCHANGED <<queue_jobs, jobHist>>
    /\ UNCHANGED <<is_running, job_handlers, loopPc, stopCalled>>
    /\ UNCHANGED notQueueVars

\* result = await self.handler(job) returns
process_job_handler_returns(j) ==
    /\ WorkerAt(j, "handler")
    /\ workers' = [workers EXCEPT ![j].pc = "complete"]
    /\ jobHist' = [jobHist EXCEPT ![j].returned = TRUE]
    /\ UNCHANGED <<queue_jobs, is_running, job_handlers, loopPc, storeFaults, stopCalled>>
    /\ UNCHANGED notQueueVars

\* await self.handler(job) raises
process_job_handler_raises(j) ==
    /\ WorkerAt(j, "handler")
    /\ workers' = [workers EXCEPT ![j].pc = "except"]
    /\ UNCHANGED <<queue_jobs, is_running, job_handlers, loopPc, jobHist, storeFaults,
                   stopCalled>>
    /\ UNCHANGED notQueueVars

\* await db.update_job_status(job_id, "completed", result=result)
process_job_complete(j, ok) ==
    /\ WorkerAt(j, "complete")
    /\ IF ok
       THEN /\ queue_jobs' = update_job_status(j, "completed")
            /\ workers' = [workers EXCEPT ![j].pc = "done"]
            /\ UNCHANGED storeFaults
       ELSE /\ workers' = [workers EXCEPT ![j].pc = "except"]
            /\ storeFaults' = storeFaults + 1
            /\ UNCHANGED queue_jobs
    /\ UNCHANGED <<is_running, job_handlers, loopPc, jobHist, stopCalled>>
    /\ UNCHANGED notQueueVars

\* "failed" if job["attempts"] >= job["max_attempts"] else "pending",
\* on the job dict the poll fetched
StatusAfterError(job) ==
    IF job.attempts >= job.max_attempts THEN "failed" ELSE "pending"

\* except Exception: await db.update_job_status(job_id, failed or pending);
\* when this call raises the exception leaves process_job.
process_job_except(j, ok) ==
    /\ WorkerAt(j, "except")
    /\ IF ok
       THEN /\ queue_jobs' = update_job_status(j, StatusAfterError(workers[j]))
            /\ UNCHANGED storeFaults
       ELSE /\ storeFaults' = storeFaults + 1
            /\ UNCHANGED queue_jobs
    /\ workers' = [workers EXCEPT ![j].pc = "done"]
    /\ UNCHANGED <<is_running, job_handlers, loopPc, jobHist, stopCalled>>
    /\ UNCHANGED notQueueVars

LoopStep ==
    \/ \E ok \in StoreAnswers : process_queue_poll(ok)
    \/ process_queue_wake
    \/ process_queue_gathered

WorkerStep ==
    \/ \E j \in JobIds, ok \in StoreAnswers : process_job_mark(j, ok)
    \/ \E j \in JobIds : process_job_handler_returns(j)
    \/ \E j \in JobIds : process_job_handler_raises(j)
    \/ \E j \in JobIds, ok \in StoreAnswers : process_job_complete(j, ok)
    \/ \E j \in JobIds, ok \in StoreAnswers : process_job_except(j, ok)

QueueNext ==
    \/ \E t \in JobTypes, p \in 0..MaxJobPriority, m \in 1..MaxAttempts :
          add_queue_job(t, p, m)
    \/ \E t \in HandlerTypes : register_handler(t)
    \/ start
    \/ stop
    \/ \E ok \in StoreAnswers : process_queue_poll(ok)
    \/ process_queue_wake
    \/ process_queue_gathered
    \/ \E j \in JobIds, ok \in StoreAnswers : process_job_mark(j, ok)
    \/ \E j \in JobIds : process_job_handler_returns(j)
    \/ \E j \in JobIds : process_job_handler_raises(j)
    \/ \E j \in JobIds, ok \in StoreAnswers : process_job_complete(j, ok)
    \/ \E j \in JobIds, ok \in StoreAnswers : process_job_except(j, ok)

(***************************************************************************)
(* AI pipeline: AIPipeline.process with its four stages                    *)
(*                                                                         *)
(* A text is a sequence of tokens: "w" a word, "u" a URL, "s" a space,     *)
(* "p" a punctuation mark.                                                 *)
(***************************************************************************)
MaxTextLen == 3
WordChars == 6
UrlChars == 14
MinOutputChars == 10

Tokens == {"w", "u", "s", "p"}
Texts == UNION {[1..n -> Tokens] : n \in 0..MaxTextLen}

\* str.strip()
RECURSIVE LStrip(_)
LStrip(t) == IF t # <<>> /\ Head(t) = "s" THEN LStrip(Tail(t)) ELSE t

RECURSIVE RStrip(_)
RStrip(t) ==
    IF t # <<>> /\ t[Len(t)] = "s" THEN RStrip(SubSeq(t, 1, Len(t) - 1)) ELSE t

Strip(t) == RStrip(LStrip(t))

\* not text or not text.strip()
IsBlank(t) == Strip(t) = <<>>

\* len(text)
RECURSIVE TextChars(_)
TextChars(t) ==
    IF t = <<>> THEN 0
    ELSE (CASE Head(t) = "w" -> WordChars
            [] Head(t) = "u" -> UrlChars
            [] OTHER -> 1) + TextChars(Tail(t))

\* re.sub(r'\s+', ' ', text)
RECURSIVE CollapseSpaces(_)
CollapseSpaces(t) ==
    IF Len(t) < 2 THEN t
    ELSE IF t[1] = "s" /\ t[2] = "s" THEN CollapseSpaces(Tail(t))
    ELSE <<t[1]>> \o CollapseSpaces(Tail(t))

\* re.sub(r'https?://\S+', '', text): the URL goes with everything up to
\* the next space.
RECURSIVE RemoveUrlsFrom(_, _)
RemoveUrlsFrom(t, inUrl) ==
    IF t = <<>> THEN <<>>
    ELSE IF Head(t) = "s" THEN <<"s">> \o RemoveUrlsFrom(Tail(t), FALSE)
    ELSE IF inUrl \/ Head(t) = "u" THEN RemoveUrlsFrom(Tail(t), TRUE)
    ELSE <<Head(t)>> \o RemoveUrlsFrom(Tail(t), FALSE)

RemoveUrls(t) == RemoveUrlsFrom(t, FALSE)

\* _apply_preprocessing_rules with the task's format rule
apply_preprocessing_rules(t, rules) ==
    LET spaced == IF rules.remove_extra_spaces THEN CollapseSpaces(t) ELSE t
    IN IF rules.remove_urls THEN RemoveUrls(spaced) ELSE spaced

\* AIRuleEngine.process: processed_text; an exception inside leaves the
\* text as it was and is reported in errors.
rule_engine_process(t, rules, raised) ==
    IF IsBlank(t) \/ raised THEN t ELSE apply_preprocessing_rules(t, rules)

\* re.sub(r'\s+([،,\.!?])', r'\1', text)
RECURSIVE DropSpacesBeforePunct(_)
DropSpacesBeforePunct(t) ==
    IF t = <<>> THEN <<>>
    ELSE IF Head(t) = "s" /\ LStrip(t) # <<>> /\ Head(LStrip(t)) = "p"
         THEN DropSpacesBeforePunct(LStrip(t))
    ELSE <<Head(t)>> \o DropSpacesBeforePunct(Tail(t))

\* re.sub(r'([،,\.!?])\s*([،,\.!?])', r'\1', text)
RECURSIVE MergePunct(_)
MergePunct(t) ==
    IF t = <<>> THEN <<>>
    ELSE IF Head(t) = "p" /\ LStrip(Tail(t)) # <<>> /\ Head(LStrip(Tail(t))) = "p"
         THEN <<"p">> \o MergePunct(Tail(LStrip(Tail(t))))
    ELSE <<Head(t)>> \o MergePunct(Tail(t))

\* _final_cleanup
final_cleanup(t) == Strip(MergePunct(DropSpacesBeforePunct(t)))

\* _apply_formatting, markdown: each line is stripped
apply_formatting(t) == Strip(t)

\* What postprocessing makes of a text that is not blank.
PostOutput(t) == final_cleanup(apply_formatting(Strip(t)))

\* AIPostprocessingEngine._empty_result
post_empty_result(out, original) ==
    [final_output |-> original, success |-> TRUE, fallback |-> TRUE]

\* AIPostprocessingEngine.process
postprocessing_process(out, original) ==
    IF IsBlank(out)
    THEN post_empty_result(out, original)
    ELSE [final_output |-> PostOutput(out),
          success |-> ~(TextChars(Strip(out)) < MinOutputChars),
          fallback |-> FALSE]

Stage(name, success) == [stage_name |-> name, success |-> success]

\* all(s.success for s in stages)
AllStagesSucceeded(st) == \A i \in 1..Len(st) : st[i].success

PipeInit ==
    /\ pipePc = "idle"
    /\ pipeInput = <<>>
    /\ pipeRules = [remove_extra_spaces |-> FALSE, remove_urls |-> FALSE]
    /\ current_text = <<>>
    /\ ai_output = <<>>
    /\ stages = <<>>
    /\ final_text = <<>>
    /\ pipeResult = [returned |-> FALSE, success |-> FALSE]
    /\ ruleText = <<>>
    /\ postInput = <<>>

\* process up to the end of the preprocessing stage; a blank text returns
\* _empty_result at once.
pipeline_preprocess(text, rules) ==
    /\ pipePc = "idle"
    /\ pipeInput' = text
    /\ pipeRules' = rules
    /\ IF IsBlank(text)
       THEN /\ pipePc' = "done"
            /\ final_text' = text
            /\ pipeResult' = [returned |-> TRUE, success |-> TRUE]
            /\ UNCHANGED <<current_text, stages>>
       ELSE /\ pipePc' = "preprocessed"
            /\ current_text' = Strip(text)
            /\ stages' = <<Stage("preprocessing", TRUE)>>
            /\ UNCHANGED <<final_text, pipeResult>>
    /\ UNCHANGED <<ai_output, ruleText, postInput>>
    /\ UNCHANGED notPipeVars

\* preprocessing.process raises: process has no handler around the call and
\* the engine has none inside, so the exception leaves process.
pipeline_preprocess_raises(text, rules) ==
    /\ pipePc = "idle"
    /\ ~IsBlank(text)
    /\ pipeInput' = text
    /\ pipeRules' = rules
    /\ current_text' = Strip(text)
    /\ pipePc' = "raised"
    /\ UNCHANGED <<ai_output, stages, final_text, pipeResult, ruleText, postInput>>
    /\ UNCHANGED notPipeVars

\* The rule engine stage.
pipeline_rule_engine(raised) ==
    /\ pipePc = "preprocessed"
    /\ LET processed_text == rule_engine_process(current_text, pipeRules, raised)
       IN /\ current_text' = processed_text
          /\ ruleText' = processed_text
    /\ stages' = Append(stages, Stage("rule_engine", ~raised))
    /\ pipePc' = "ruled"
    /\ UNCHANGED <<pipeInput, pipeRules, ai_output, final_text, pipeResult, postInput>>
    /\ UNCHANGED notPipeVars

\* What the inference call can do: return a text, return None, raise.
GenerateOutcomes == {"returns", "none", "raises"}

\* _process_with_ai: "" when the call raises or returns nothing
process_with_ai(outcome, result) ==
    IF outcome = "returns" THEN result ELSE <<>>

\* A generate stage that leaves no entry in the trace when it has no output.
pipeline_generate_unrecorded(outcome, result) ==
    /\ pipePc = "ruled"
    /\ LET out == process_with_ai(outcome, result)
       IN /\ ai_output' = out
          /\ IF ~IsBlank(out)
             THEN /\ stages' = Append(stages, Stage("ai_summarization", TRUE))
                  /\ current_text' = out
             ELSE UNCHANGED <<stages, current_text>>
    /\ pipePc' = "generated"
    /\ UNCHANGED <<pipeInput, pipeRules, final_text, pipeResult, ruleText, postInput>>
    /\ UNCHANGED notPipeVars

\* The generate stage.
pipeline_generate(outcome, result) ==
    /\ pipePc = "ruled"
    /\ LET out == process_with_ai(outcome, result)
       IN /\ ai_output' = out
          /\ IF ~IsBlank(out)
             THEN /\ stages' = Append(stages, Stage("ai_summarization", TRUE))
                  /\ current_text' = out
             ELSE /\ stages' = Append(stages, Stage("ai_summarization", FALSE))
                  /\ UNCHANGED current_text
    /\ pipePc' = "generated"
    /\ UNCHANGED <<pipeInput, pipeRules, final_text, pipeResult, ruleText, postInput>>
    /\ UNCHANGED notPipeVars

\* The postprocessing stage and the result.
pipeline_postprocess ==
    /\ pipePc = "generated"
    /\ LET postprocess_result == postprocessing_process(current_text, pipeInput)
           all_stages == Append(stages, Stage("postprocessing", postprocess_result.success))
       IN /\ final_text' = postprocess_result.final_output
          /\ stages' = all_stages
          /\ pipeResult' = [returned |-> TRUE, success |-> AllStagesSucceeded(all_stages)]
    /\ postInput' = current_text
    /\ pipePc' = "done"
    /\ UNCHANGED <<pipeInput, pipeRules, current_text, ai_output, ruleText>>
    /\ UNCHANGED notPipeVars

\* postprocessing.process raises: as for preprocessing, nothing catches it.
pipeline_postprocess_raises ==
    /\ pipePc = "generated"
    /\ postInput' = current_text
    /\ pipePc' = "raised"
    /\ UNCHANGED <<pipeInput, pipeRules, current_text, ai_output, stages, final_text,
                   pipeResult, ruleText>>
    /\ UNCHANGED notPipeVars

PipeNext ==
    \/ \E text \in Texts, rules \in [remove_extra_spaces : BOOLEAN, remove_urls : BOOLEAN] :
          pipeline_preprocess(text, rules)
    \/ \E raised \in BOOLEAN : pipeline_rule_engine(raised)
    \/ \E outcome \in GenerateOutcomes, result \in Texts : pipeline_generate(outcome, result)
    \/ pipeline_postprocess
    \/ \E text \in Texts, rules \in [remove_extra_spaces : BOOLEAN, remove_urls : BOOLEAN] :
          pipeline_preprocess_raises(text, rules)
    \/ pipeline_postprocess_raises

(***************************************************************************)
(* Dispatch of a unit to its destinations: ForwardingEngine.forward_message *)
(* for a single message, and the per-target loop of                        *)
(* ForwardingEngine._process_media_group_after_delay for a media group.    *)
(*                                                                         *)
(* A unit is a call of get_next_serial_number that has returned: both      *)
(* paths make that call before anything else is done with the unit, so the *)
(* n-th entry of "returned" is the allocation of unit n.                   *)
(***************************************************************************)
NumTargets == 2
MaxDispatches == 2

Targets == 1..NumTargets

\* What the send to one destination can meet: the content is sent, the
\* channel is not in the store, ChannelPrivate, ChatWriteForbidden, FloodWait,
\* any other exception.
SendOutcomes == {"sent", "not_found", "private", "forbidden", "flood", "error"}

DispatchInit ==
    /\ dispatch = <<>>
    /\ archive_messages = <<>>

\* The units whose allocation has returned and that are not yet dispatched.
Allocated == (DOMAIN returned) \ (DOMAIN dispatch)

NewUnit(kind, pc) ==
    [kind |-> kind, pc |-> pc, results |-> [t \in Targets |-> "pending"]]

\* _forward_to_target: "delivered" when the content was sent, "returned" when
\* the coroutine returns without having sent it, "raised" when it raises.
ForwardToTarget(outcome) ==
    CASE outcome = "sent" -> "delivered"
      [] outcome \in {"not_found", "private", "forbidden"} -> "returned"
      [] OTHER -> "raised"

\* _forward_media_group: only a missing channel makes it return early.
ForwardMediaGroup(outcome) ==
    CASE outcome = "sent" -> "delivered"
      [] outcome = "not_found" -> "returned"
      [] OTHER -> "raised"

\* A gather that raises the first exception of its tasks.
FirstExceptionPropagates == FALSE

\* asyncio.gather(*forward_tasks, return_exceptions=True)
ReturnExceptions == TRUE

\* gather is over: every task has ended, or, without return_exceptions, one
\* of them has raised.
GatherOver(results) ==
    \/ \A t \in Targets : results[t] # "pending"
    \/ ~ReturnExceptions /\ \E t \in Targets : results[t] = "raised"

\* successful: the results that are not exceptions
Successful(results) == Cardinality({t \in Targets : results[t] \in {"delivered", "returned"}})

\* forward_message, link path: the summary of the link is blocked by a content
\* filter and the call returns (lines 137-157).
forward_message_link_blocked(n) ==
    /\ n \in Allocated
    /\ Cardinality(DOMAIN dispatch) < MaxDispatches
    /\ dispatch' = DictPut(dispatch, n, NewUnit("single", "blocked"))
    /\ UNCHANGED archive_messages
    /\ UNCHANGED notDispatchVars

\* forward_message: one task per target is created (lines 922-937).
forward_message_create_tasks(n) ==
    /\ n \in Allocated
    /\ Cardinality(DOMAIN dispatch) < MaxDispatches
    /\ dispatch' = DictPut(dispatch, n, NewUnit("single", "sending"))
    /\ UNCHANGED archive_messages
    /\ UNCHANGED notDispatchVars

\* The task of one target ends; the tasks run independently of each other.
forward_to_target_ends(n, t, outcome) ==
    /\ n \in DOMAIN dispatch
    /\ dispatch[n].kind = "single" /\ dispatch[n].pc = "sending"
    /\ dispatch[n].results[t] = "pending"
    /\ dispatch' = [dispatch EXCEPT ![n].results[t] = ForwardToTarget(outcome)]
    /\ UNCHANGED archive_messages
    /\ UNCHANGED notDispatchVars

\* forward_message after the gather (lines 940-999): the results are counted,
\* the statistics are updated (a store call that may raise, which makes
\* forward_message raise), and the archive record is written when successful
\* is positive (an exception of _save_to_archive is logged and dropped).
forward_message_gathered(n, statsOk, archiveOk) ==
    /\ n \in DOMAIN dispatch
    /\ dispatch[n].kind = "single" /\ dispatch[n].pc = "sending"
    /\ GatherOver(dispatch[n].results)
    /\ LET results == dispatch[n].results
           gatherRaised == \E t \in Targets : results[t] = "pending"
       IN IF gatherRaised \/ ~statsOk
          THEN /\ dispatch' = [dispatch EXCEPT ![n].pc = "raised"]
               /\ UNCHANGED archive_messages
          ELSE /\ dispatch' = [dispatch EXCEPT ![n].pc = "done"]
               /\ archive_messages' =
                      IF Successful(results) > 0 /\ archiveOk
                      THEN Append(archive_messages,
                                  [unit |-> n, task |-> returned[n].task,
                                   serial |-> returned[n].serial])
                      ELSE archive_messages
    /\ UNCHANGED notDispatchVars

\* _process_media_group_after_delay reaches its loop over the targets
\* (line 1235).
media_group_loop_begin(n) ==
    /\ n \in Allocated
    /\ Cardinality(DOMAIN dispatch) < MaxDispatches
    /\ dispatch' = DictPut(dispatch, n, NewUnit("group", "sending"))
    /\ UNCHANGED archive_messages
    /\ UNCHANGED notDispatchVars

\* One turn of the loop (lines 1237-1256): the targets are served in order,
\* an exception of _forward_media_group is logged and the loop goes on.
media_group_target_ends(n, t, outcome) ==
    /\ n \in DOMAIN dispatch
    /\ dispatch[n].kind = "group" /\ dispatch[n].pc = "sending"
    /\ dispatch[n].results[t] = "pending"
    /\ \A u \in Targets : u < t => dispatch[n].results[u] # "pending"
    /\ dispatch' = [dispatch EXCEPT ![n].results[t] = ForwardMediaGroup(outcome)]
    /\ UNCHANGED archive_messages
    /\ UNCHANGED notDispatchVars

\* After the loop (lines 1258-1263): the statistics are updated and the task
\* ends; no archive record is written on this path.
media_group_loop_end(n, statsOk) ==
    /\ n \in DOMAIN dispatch
    /\ dispatch[n].kind = "group" /\ dispatch[n].pc = "sending"
    /\ \A t \in Targets : dispatch[n].results[t] # "pending"
    /\ dispatch' = [dispatch EXCEPT ![n].pc = IF statsOk THEN "done" ELSE "raised"]
    /\ UNCHANGED archive_messages
    /\ UNCHANGED notDispatchVars

DispatchNext ==
    \/ \E c \in Callers, t \in Tasks : get_next_serial_number_fetchrow(c, t)
    \/ \E c \in Callers : get_next_serial_number_update(c)
    \/ \E c \in Callers : get_next_serial_number_insert(c)
    \/ \E c \in Callers : get_next_serial_number_insert_conflict(c)
    \/ \E n \in DOMAIN returned : forward_message_link_blocked(n)
    \/ \E n \in DOMAIN returned : forward_message_create_tasks(n)
    \/ \E n \in DOMAIN returned, t \in Targets, o \in SendOutcomes :
          forward_to_target_ends(n, t, o)
    \/ \E n \in DOMAIN returned, statsOk \in BOOLEAN, archiveOk \in BOOLEAN :
          forward_message_gathered(n, statsOk, archiveOk)
    \/ \E n \in DOMAIN returned : media_group_loop_begin(n)
    \/ \E n \in DOMAIN returned, t \in Targets, o \in SendOutcomes :
          media_group_target_ends(n, t, o)
    \/ \E n \in DOMAIN returned, statsOk \in BOOLEAN : media_group_loop_end(n, statsOk)

(***************************************************************************)
(* forward_message for a single message: _process_message with the        *)
(* content filters, then one _forward_to_target per destination            *)
(***************************************************************************)
NumMessages == 2
MaxForwards == 3

Messages == 1..NumMessages

\* How _process_message ends: the pipeline text passes the filters
\* ("processed"), a block filter matches ("blocked", it returns None), or the
\* processing raises and the original text is returned ("failed").
ProcessOutcomes == {"processed", "blocked", "failed"}

FilterInit ==
    /\ fwdPc = "idle"
    /\ fwdMessage = 0
    /\ fwd_processed_text = "None"
    /\ message_cache = <<>>
    /\ fwdBlocked = [m \in Messages |-> FALSE]
    /\ fwdSends = <<>>
    /\ fwdTargets = {}
    /\ fwdCalls = 0

\* What forward_message takes as processed_text from the result of
\* _process_message (lines 2583-2591, 2640-2648; 886-890).
ProcessedText(outcome) ==
    CASE outcome = "processed" -> "processed"
      [] outcome = "blocked" -> "None"
      [] OTHER -> "original"

\* forward_message: one task per target is created with the processed_text
\* at hand, None included (lines 922-937).
CreateTasks(text) ==
    /\ fwdPc' = "sending"
    /\ fwdTargets' = Targets
    /\ fwd_processed_text' = text

\* forward_message reaches the processing (lines 875-878): without AI and
\* summarization processed_text stays None; with a cached result the cached
\* text is used; otherwise _process_message is awaited.
forward_message_begin(m, ai_enabled) ==
    /\ fwdPc = "idle"
    /\ fwdCalls < MaxForwards
    /\ fwdCalls' = fwdCalls + 1
    /\ fwdMessage' = m
    /\ IF ~ai_enabled
       THEN CreateTasks("None")
       ELSE IF m \in DOMAIN message_cache
       THEN CreateTasks(message_cache[m])
       ELSE /\ fwdPc' = "processing"
            /\ UNCHANGED <<fwd_processed_text, fwdTargets>>
    /\ UNCHANGED <<message_cache, fwdBlocked, fwdSends>>
    /\ UNCHANGED notFilterVars

\* _process_message returns; its result is cached and the tasks are created
\* (lines 880-890, 922-937).
process_message_returns(outcome) ==
    /\ fwdPc = "processing"
    /\ fwdBlocked' = [fwdBlocked EXCEPT ![fwdMessage] = @ \/ outcome = "blocked"]
    /\ message_cache' = DictPut(message_cache, fwdMessage, ProcessedText(outcome))
    /\ CreateTasks(ProcessedText(outcome))
    /\ UNCHANGED <<fwdMessage, fwdSends, fwdCalls>>
    /\ UNCHANGED notFilterVars

\* final_text of _forward_to_target (lines 2689-2697): the processed text
\* when there is one and it differs from the original, else the original.
FinalText(text) == IF text \notin {"None", "original"} THEN text ELSE "original"

\* _forward_to_target of one target ends: the content is sent unless the
\* target channel is unknown or the send fails.
forward_to_target_done(t, sent) ==
    /\ fwdPc = "sending"
    /\ t \in fwdTargets
    /\ fwdTargets' = fwdTargets \ {t}
    /\ fwdSends' = IF sent
                   THEN Append(fwdSends, [message |-> fwdMessage, target |-> t,
                                          text |-> FinalText(fwd_processed_text)])
                   ELSE fwdSends
    /\ fwdPc' = IF fwdTargets' = {} THEN "idle" ELSE "sending"
    /\ UNCHANGED <<fwdMessage, fwd_processed_text, message_cache, fwdBlocked, fwdCalls>>
    /\ UNCHANGED notFilterVars

FilterNext ==
    \/ \E m \in Messages, ai_enabled \in BOOLEAN : forward_message_begin(m, ai_enabled)
    \/ \E outcome \in ProcessOutcomes : process_message_returns(outcome)
    \/ \E t \in Targets, sent \in BOOLEAN : forward_to_target_done(t, sent)

(***************************************************************************)
(* The generate call: AIPipeline._process_with_ai, AIManager.generate and  *)
(* the generate_text of the four providers                                 *)
(*                                                                         *)
(* Between the start of generate_text and its first request to the service *)
(* and between a response and the next request nothing is awaited, so each *)
(* is one step.                                                            *)
(***************************************************************************)
MaxRequests == 2

\* AIManager.providers once the providers of the database are loaded.
providers == {"openai", "groq", "claude", "huggingface"}

\* The providers a task may name; "gemini" has no entry in AIManager.providers.
RequestedProviders == providers \cup {"gemini"}

\* The models a task may name for each provider.
RequestedModels(provider) ==
    CASE provider = "openai" -> {"gpt-5-mini", "o3-mini", "gpt-4o", "my-finetune"}
      [] provider = "groq" -> {"llama-3.3-70b", "llama-3.1-8b-instant", "mixtral-8x7b"}
      [] provider = "claude" -> {"claude-3-sonnet-20240229"}
      [] provider = "huggingface" -> {"meta-llama/Llama-2-70b-chat-hf"}
      [] OTHER -> {"gemini-pro"}

\* What the service may answer to one request.  "thinking_only" is a content
\* made of a <think> block and nothing else.
Responses == {"content", "thinking_only", "empty", "no_choices", "rate_limit", "error"}

\* The limits AIManager.generate hands to generate_text: it passes prompt,
\* model, max_tokens and temperature only, so the three keep their default
\* None, written 0 here (the code tests them for truth).
GenerateLimits == [tpm_limit |-> 0, rpm_limit |-> 0, tpd_limit |-> 0]

\* "if tpm_limit or rpm_limit or tpd_limit" of OpenAIProvider.generate_text,
\* the only place that consults the rate limiter.
RateChecked(provider, limits) ==
    /\ provider = "openai"
    /\ (limits.tpm_limit # 0 \/ limits.rpm_limit # 0 \/ limits.tpd_limit # 0)

\* "sub in model_lower" for the names used here.
NameHas(model, sub) ==
    model \in (CASE sub = "gpt-5" -> {"gpt-5-mini"}
                [] sub = "o3" -> {"o3-mini"}
                [] OTHER -> {})

\* The fallback chain of OpenAIProvider.generate_text.
OpenAIModelsToTry(model) ==
    IF NameHas(model, "gpt-5") \/ NameHas(model, "gpt-4.1")
       \/ NameHas(model, "o3") \/ NameHas(model, "o4")
    THEN <<model, "gpt-4o", "gpt-4-turbo", "gpt-4">>
    ELSE IF model \notin {"gpt-4o", "gpt-4o-mini", "gpt-4-turbo", "gpt-4", "gpt-3.5-turbo"}
         THEN <<model, "gpt-4o", "gpt-4-turbo", "gpt-4", "gpt-3.5-turbo">>
         ELSE <<model>>

\* model_mapping of GroqProvider.generate_text, for the names used here.
GroqMapped(model) ==
    IF model = "llama-3.3-70b" THEN "llama-3.3-70b-versatile" ELSE model

approved_models ==
    <<"openai/gpt-oss-120b", "openai/gpt-oss-20b", "qwen/qwen3-32b",
      "meta-llama/llama-4-scout-17b-16e-instruct",
      "meta-llama/llama-4-maverick-17b-128e-instruct",
      "llama-3.3-70b-versatile", "moonshotai/kimi-k2-instruct-0905",
      "llama-3.1-8b-instant">>

\* The fallback chain of GroqProvider.generate_text: the model, then every
\* approved model that is not the model.
GroqModelsToTry(model) ==
    <<GroqMapped(model)>> \o SelectSeq(approved_models, LAMBDA a : a # GroqMapped(model))

ModelsToTry(provider, model) ==
    CASE provider = "openai" -> OpenAIModelsToTry(model)
      [] provider = "groq" -> GroqModelsToTry(model)
      [] OTHER -> <<model>>

\* What generate_text does with one response: "return_text", "return_empty",
\* "continue" with the next model, "break" out of the loop, or "raise".
Handling(provider, response) ==
    CASE provider = "openai" ->
            IF response \in {"content", "thinking_only"} THEN "return_text" ELSE "continue"
      [] provider = "groq" ->
            IF response = "content" THEN "return_text"
            ELSE IF response = "rate_limit" THEN "break"
            ELSE "continue"
      [] OTHER ->
            IF response \in {"content", "thinking_only"} THEN "return_text"
            ELSE IF response \in {"empty", "no_choices"} THEN "return_empty"
            ELSE "raise"

\* What generate_text does once its loop is over without a return: the
\* OpenAI provider raises, the Groq provider returns "".
AfterLoop(provider) == IF provider = "openai" THEN "raised" ELSE "returned"

NoResult == [output |-> "empty", model |-> "none", how |-> "none"]

ProviderInit ==
    /\ genPc = "idle"
    /\ genRequest = [provider |-> "none", model |-> "none"]
    /\ models_to_try = <<>>
    /\ tryIndex = 0
    /\ inferenceCalls = <<>>
    /\ admissions = {}
    /\ genResult = NoResult
    /\ genRequests = 0

\* _process_with_ai calls AIManager.generate.  An unknown provider gives None
\* and the stage output is "".  Otherwise generate_text starts: the OpenAI
\* provider consults the rate limiter when it was given a limit and raises on
\* a denial; then the first model of the list is requested.
generate(provider, model, admitted) ==
    /\ genPc \in {"idle", "done"}
    /\ genRequests < MaxRequests
    /\ genRequests' = genRequests + 1
    /\ genRequest' = [provider |-> provider, model |-> model]
    /\ IF provider \notin providers
       THEN /\ genPc' = "done"
            /\ genResult' = [output |-> "empty", model |-> "none", how |-> "no_provider"]
            /\ models_to_try' = <<>> /\ tryIndex' = 0
            /\ inferenceCalls' = <<>> /\ admissions' = {}
       ELSE IF RateChecked(provider, GenerateLimits) /\ ~admitted
       THEN /\ genPc' = "done"
            /\ genResult' = [output |-> "empty", model |-> "none", how |-> "denied"]
            /\ models_to_try' = <<>> /\ tryIndex' = 0
            /\ inferenceCalls' = <<>> /\ admissions' = {}
       ELSE /\ genPc' = "awaiting"
            /\ genResult' = NoResult
            /\ models_to_try' = ModelsToTry(provider, model)
            /\ tryIndex' = 1
            /\ inferenceCalls' = <<ModelsToTry(provider, model)[1]>>
            /\ admissions' = IF RateChecked(provider, GenerateLimits) THEN {model} ELSE {}
    /\ UNCHANGED notProviderVars

\* The service answers the request in flight.  A usable content is returned
\* to the pipeline; otherwise the loop goes on to the next model and sends its
\* request, or ends, and _process_with_ai turns an exception or an empty
\* result into "".
inference_responds(response) ==
    /\ genPc = "awaiting"
    /\ LET provider == genRequest.provider
           try_model == models_to_try[tryIndex]
           h == Handling(provider, response)
       IN CASE h = "return_text" ->
                 /\ genPc' = "done"
                 /\ genResult' = [output |-> "text", model |-> try_model, how |-> "returned"]
                 /\ UNCHANGED <<tryIndex, inferenceCalls>>
            [] h = "return_empty" ->
                 /\ genPc' = "done"
                 /\ genResult' = [output |-> "empty", model |-> try_model, how |-> "returned"]
                 /\ UNCHANGED <<tryIndex, inferenceCalls>>
            [] h = "raise" ->
                 /\ genPc' = "done"
                 /\ genResult' = [output |-> "empty", model |-> try_model, how |-> "raised"]
                 /\ UNCHANGED <<tryIndex, inferenceCalls>>
            [] h = "break" ->
                 /\ genPc' = "done"
                 /\ genResult' = [output |-> "empty", model |-> try_model, how |-> "returned"]
                 /\ UNCHANGED <<tryIndex, inferenceCalls>>
            [] h = "continue" /\ tryIndex < Len(models_to_try) ->
                 /\ tryIndex' = tryIndex + 1
                 /\ inferenceCalls' = Append(inferenceCalls, models_to_try[tryIndex + 1])
                 /\ UNCHANGED <<genPc, genResult>>
            [] h = "continue" /\ tryIndex = Len(models_to_try) ->
                 /\ genPc' = "done"
                 /\ genResult' = [output |-> "empty", model |-> try_model,
                                  how |-> AfterLoop(provider)]
                 /\ UNCHANGED <<tryIndex, inferenceCalls>>
    /\ UNCHANGED <<genRequest, models_to_try, admissions, genRequests>>
    /\ UNCHANGED notProviderVars

GenerateStep ==
    \E provider \in RequestedProviders :
        \E model \in RequestedModels(provider), admitted \in BOOLEAN :
            generate(provider, model, admitted)

ProviderNext ==
    \/ GenerateStep
    \/ \E response \in Responses : inference_responds(response)

(***************************************************************************)
(* Specifications, one per component                                       *)
(***************************************************************************)
Init ==
    /\ SerialInit /\ GroupInit /\ RateInit /\ CacheInit /\ QueueInit /\ PipeInit
    /\ DispatchInit /\ ProviderInit /\ LimiterInit /\ DailyInit
    /\ FilterInit

SpecSerial == Init /\ [][SerialNext]_vars

SpecGroup == Init /\ [][GroupNext]_vars

\* Every task the event loop holds ready is run.
SpecGroupFair == SpecGroup /\ WF_vars(GroupNext)

SpecFlush == Init /\ [][FlushNext]_vars

SpecRate == Init /\ [][RateNext]_vars

SpecWait == Init /\ [][WaitNext]_vars

SpecLimiter == Init /\ [][LimiterNext]_vars

SpecDaily == Init /\ [][DailyNext]_vars

SpecCache == Init /\ [][CacheNext]_vars

SpecQueue == Init /\ [][QueueNext]_vars

SpecPipeline == Init /\ [][PipeNext]_vars

SpecDispatch == Init /\ [][DispatchNext]_vars

SpecFilter == Init /\ [][FilterNext]_vars

SpecProvider == Init /\ [][ProviderNext]_vars

\* The event loop runs the pipeline whenever it has a step to take.  The
\* inference service is outside the program: nothing makes it answer.
SpecProviderFair == SpecProvider /\ WF_vars(GenerateStep)

\* The event loop runs every task that is ready: the poll loop and the
\* worker tasks each keep taking steps while they have one to take.
SpecQueueFair == SpecQueue /\ WF_vars(LoopStep) /\ WF_vars(WorkerStep)

(***************************************************************************)
(* Claims                                                                  *)
(***************************************************************************)
\* C1: no two calls of get_next_serial_number for the same task return the
\* same serial number, whatever the interleaving of the calls (first
\* allocations included).
C1_NoDuplicateSerial ==
    \A i, j \in DOMAIN returned :
        (i # j /\ returned[i].task = returned[j].task)
            => returned[i].serial # returned[j].serial

\* The flushes of a cache key handed to processing, and the flush tasks of the key.
FlushesOf(k) == {n \in DOMAIN flushed : flushed[n].key = k}
TasksOf(k) == {f \in DOMAIN flushTasks : flushTasks[f].key = k}

\* C2: when every message of a media group reaches _handle_media_group before
\* the flush of the group pops the buffer, exactly one flush processes the
\* group, and the flushed list holds each message once, in order of arrival.
C2_SingleFlushInArrivalOrder ==
    \A k \in GroupKeys :
        ~lateArrival[k] =>
            /\ Cardinality(TasksOf(k)) <= 1
            /\ Cardinality(FlushesOf(k)) <= 1
            /\ \A n \in FlushesOf(k) : flushed[n].items = arrivals[k]
            /\ \A f \in TasksOf(k) :
                  flushTasks[f].found => flushTasks[f].messages = arrivals[k]
            /\ ( /\ arrivals[k] # <<>>
                 /\ \A i \in Items : itemPc[i] # "locked"
                 /\ \A f \in TasksOf(k) : flushTasks[f].pc = "done" )
               => Cardinality(FlushesOf(k)) = 1

\* Witness of C2: three messages of one group arrived before the pop and were
\* flushed together.
C2_Witness ==
    \E k \in GroupKeys :
        /\ Len(arrivals[k]) >= 3
        /\ ~lateArrival[k]
        /\ \E n \in FlushesOf(k) : flushed[n].items = arrivals[k]
        /\ \A f \in TasksOf(k) : flushTasks[f].pc = "done"

\* C16: a batch whose first message was buffered while the task was active
\* is handed to processing only if the task is still active when the flush
\* fires: a task disabled in between is not dispatched.
C16_FlushRechecksTask ==
    \A n \in DOMAIN flushed :
        (\E i \in DOMAIN flushed[n].config : flushed[n].config[i].is_active)
            => flushed[n].active

\* The flush tasks of a cache key whose timer is pending: created and not yet
\* past the check of the buffer.
PendingOf(k) == {f \in TasksOf(k) : flushTasks[f].pc \in {"sleeping", "locked"}}

\* C27: only the first arrival for a cache key schedules a flush task; an
\* arrival for a key that is buffered appends its message and leaves the flush
\* tasks and the task map as they are, so the timer started at the first
\* arrival is the one that fires, and a buffered key never has more than one
\* pending flush task.
C27_OneTimerPerKey ==
    /\ [](\A k \in GroupKeys :
             k \in DOMAIN media_group_cache => Cardinality(PendingOf(k)) = 1)
    /\ [][\A i \in Items : (itemPc[i] = "locked" /\ itemPc'[i] = "done") =>
             LET k == itemKey[i]
             IN IF k \in DOMAIN media_group_cache
                THEN /\ flushTasks' = flushTasks
                     /\ media_group_tasks' = media_group_tasks
                     /\ media_group_cache'[k] = Append(media_group_cache[k], i)
                ELSE /\ Len(flushTasks') = Len(flushTasks) + 1
                     /\ SubSeq(flushTasks', 1, Len(flushTasks)) = flushTasks
                     /\ flushTasks'[Len(flushTasks')].key = k
                     /\ flushTasks'[Len(flushTasks')].pc = "sleeping"
                     /\ media_group_cache'[k] = <<i>>]_vars

\* Witness of C27: three messages of one key are buffered, all arrivals are
\* through, and the only flush task of the key is the one of the first
\* arrival, still sleeping.
C27_Witness ==
    \E k \in DOMAIN media_group_cache :
        /\ Len(media_group_cache[k]) >= 3
        /\ \A i \in Items : itemPc[i] # "locked"
        /\ Cardinality(TasksOf(k)) = 1
        /\ \A f \in TasksOf(k) : flushTasks[f].pc = "sleeping"
        /\ k \in DOMAIN media_group_tasks /\ media_group_tasks[k] \in TasksOf(k)

\* A flush task that is at, or has passed, the buffer check without finding
\* its key.
FiredForAbsentKey(f) ==
    /\ f \in DOMAIN flushTasks
    /\ \/ /\ flushTasks[f].pc = "locked"
          /\ flushTasks[f].key \notin DOMAIN media_group_cache
       \/ /\ flushTasks[f].pc = "finally"
          /\ ~flushTasks[f].found

\* C28: a flush task that fires for a cache key absent from the buffer map
\* does nothing: it skips processing (where the serial number is allocated
\* and the batch is sent), hands no batch over, and leaves media_group_cache
\* and media_group_config as they are.
C28_AbsentKeyNoOp ==
    /\ [](\A n \in DOMAIN flushed : flushTasks[flushed[n].task].found)
    /\ [][\A f \in FlushIds :
             (FiredForAbsentKey(f) /\ flushTasks'[f] # flushTasks[f]) =>
                 /\ flushTasks'[f].pc \in {"finally", "done"}
                 /\ media_group_cache' = media_group_cache
                 /\ media_group_config' = media_group_config
                 /\ flushed' = flushed
                 /\ serialVars' = serialVars]_vars

\* Witness of C28: a flush task has run to its end without finding its key
\* while another batch was buffered, and no batch of that task was handed over.
C28_Witness ==
    \E f \in DOMAIN flushTasks :
        /\ flushTasks[f].pc = "done"
        /\ ~flushTasks[f].found
        /\ media_group_cache # <<>>
        /\ \A n \in DOMAIN flushed : flushed[n].task # f

\* The members of a sequence of items.
ItemsIn(seq) == {seq[n] : n \in DOMAIN seq}

\* The batches handed to processing that hold item i, and the flush tasks
\* that popped it.
BatchesWith(i) == {n \in DOMAIN flushed : i \in ItemsIn(flushed[n].items)}
PoppedBy(i) == {f \in DOMAIN flushTasks : i \in ItemsIn(flushTasks[f].messages)}
Buffered(i) ==
    itemKey[i] \in DOMAIN media_group_cache
        /\ i \in ItemsIn(media_group_cache[itemKey[i]])

\* C36: every item handed to _handle_media_group ends up in exactly one
\* flushed batch.  At any time an item that is through the handler is either
\* buffered or popped by one flush task, never both and never neither; it is
\* in at most one batch handed to processing and eventually in one; and an
\* item whose key is absent on arrival, as after the pop of its group, starts
\* a batch and a flush task of its own and leaves the popped batches alone.
C36_EveryItemFlushedOnce ==
    /\ [](\A i \in Items :
             /\ Cardinality(BatchesWith(i)) <= 1
             /\ itemPc[i] = "done" =>
                    Cardinality(PoppedBy(i)) + (IF Buffered(i) THEN 1 ELSE 0) = 1)
    /\ \A i \in Items : (itemPc[i] = "done") ~> (Cardinality(BatchesWith(i)) = 1)
    /\ [][\A i \in Items :
             (itemPc[i] = "locked" /\ itemPc'[i] = "done"
                 /\ itemKey[i] \notin DOMAIN media_group_cache) =>
                 /\ media_group_cache'[itemKey[i]] = <<i>>
                 /\ Len(flushTasks') = Len(flushTasks) + 1
                 /\ flushTasks'[Len(flushTasks')].key = itemKey[i]
                 /\ flushTasks'[Len(flushTasks')].pc = "sleeping"
                 /\ \A f \in DOMAIN flushTasks : flushTasks'[f] = flushTasks[f]
                 /\ flushed' = flushed]_vars

\* Witness of C36: an item arrived after the flush of its group had popped
\* the buffer; the group was handed over in two batches, the late item in
\* the second, and every item is in exactly one of them.
C36_Witness ==
    \E k \in GroupKeys :
        /\ lateArrival[k]
        /\ Cardinality(FlushesOf(k)) = 2
        /\ Len(arrivals[k]) = NumItems
        /\ \A i \in Items : Cardinality(BatchesWith(i)) = 1
        /\ \A f \in TasksOf(k) : flushTasks[f].pc = "done"

(***************************************************************************)
(* Rate limiter claims                                                     *)
(***************************************************************************)
RECURSIVE SumTokens(_)
SumTokens(log) ==
    IF log = <<>> THEN 0 ELSE Head(log).tokens + SumTokens(Tail(log))

\* Tokens admitted for a key at the instants t with now - 60 s < t <= now.
AdmittedInLastMinute(k) ==
    SumTokens(SelectSeq(admitLog[k], LAMBDA e : e.time > now - WindowTicks))

\* Tokens admitted for a key at the instants t with now - 60 s <= t <= now.
AdmittedInClosedMinute(k) == SumTokens(admitLog[k])

\* C3 (as stated): for a key whose every call passes the same tpm_limit, the
\* tokens of the admitted calls within any interval of 60 seconds never sum to
\* more than tpm_limit.
C3_MinuteSumWithinLimit ==
    \A k \in Models : tpmAlways[k] => AdmittedInLastMinute(k) <= TpmLimit

\* C3 (amended): for a key whose every call passes the same tpm_limit, the
\* tokens of the admitted calls within any interval of 60 seconds never sum to
\* more than twice tpm_limit: the full bucket plus one minute of refill.
C3_MinuteSumWithinTwiceLimit ==
    \A k \in Models : tpmAlways[k] => AdmittedInClosedMinute(k) <= 2 * TpmLimit

\* A key that spent a full bucket and, a minute later, the refilled one.
C3_Witness ==
    \E k \in Models :
        /\ tpmAlways[k]
        /\ k \in DOMAIN token_buckets
        /\ Len(admitLog[k]) >= 2
        /\ admitLog[k][1].time < now
        /\ AdmittedInClosedMinute(k) = 2 * TpmLimit

\* A step that is a denied can_request call.
DeniedCall == rateCalls' = rateCalls + 1 /\ lastDenied' # "none"

\* C4: a denied can_request call leaves the limiter's state as it
\* was: no entry created, count, refill time and daily total unchanged.
C4_DenialLeavesStateUnchanged ==
    [][DeniedCall => rateState' = rateState]_vars

\* C15: for a key with no prior state whose calls all pass rpm_limit = L and
\* fall within 60 seconds of the first one, the first L calls are admitted
\* and a further call is denied by the RPM check with a reported wait
\* greater than 0 and at most 60 seconds: at most L are admitted.
C15_FixedWindowAdmitsL ==
    \A k \in Models :
        rpmRun[k].ok =>
            /\ rpmRun[k].admitted = Min(rpmRun[k].calls, RpmLimit)
            /\ rpmRun[k].calls <= RpmLimit => rpmRun[k].by = "none"
            /\ rpmRun[k].calls > RpmLimit =>
                  /\ rpmRun[k].by = "rpm"
                  /\ rpmRun[k].wait > 0
                  /\ rpmRun[k].wait <= WindowTicks

\* L + 1 calls in the window of the first one, the last of them half a
\* window after the first: L admitted, the last denied with half a window
\* to wait.
C15_Witness ==
    \E k \in Models :
        /\ rpmRun[k].ok
        /\ rpmRun[k].calls = RpmLimit + 1
        /\ rpmRun[k].admitted = RpmLimit
        /\ rpmRun[k].by = "rpm"
        /\ rpmRun[k].wait = WindowTicks - 1
        /\ request_counters[k].count = RpmLimit

\* A step that is an admitted can_request call for key k.
AdmittedCall(k) ==
    /\ rateCalls' = rateCalls + 1
    /\ lastDenied' = "none"
    /\ admitLog'[k] # admitLog[k]

\* The cost of the call admitted by the step.
AdmittedCost(k) == admitLog'[k][Len(admitLog'[k])].tokens

\* The request count of the running window, the tokens in the bucket at this
\* instant and the tokens of today, as the checks see them before the call.
CountBefore(k) ==
    IF k \in DOMAIN request_counters /\ now - request_counters[k].window_start < WindowTicks
    THEN request_counters[k].count ELSE 0

DailyBefore(k) ==
    IF k \in DOMAIN daily_token_counters /\ daily_token_counters[k].date = today
    THEN daily_token_counters[k].tokens ELSE 0

\* C25: an admitted can_request call records the request against the three
\* counters of its key: afterwards the key has a request counter one above
\* the count of the running window, a daily counter above today's tokens by
\* the cost, and a token bucket; a bucket already brought up to this instant
\* is lower by the cost.
C25_AdmissionRecordedThrice ==
    [][\A k \in Models :
          AdmittedCall(k) =>
              /\ k \in DOMAIN request_counters'
              /\ request_counters'[k].count = CountBefore(k) + 1
              /\ k \in DOMAIN daily_token_counters'
              /\ daily_token_counters'[k].tokens = DailyBefore(k) + AdmittedCost(k)
              /\ k \in DOMAIN token_buckets'
              /\ (k \in DOMAIN token_buckets /\ token_buckets[k].last_refill = now) =>
                     token_buckets'[k].tokens =
                         token_buckets[k].tokens - AdmittedCost(k) * WindowTicks]_vars

\* C40: the token bucket of every key holds at all times a number of tokens
\* that is not negative and not above the capacity tpm_limit, whichever
\* limits the can_request calls pass or omit.
C40_BucketWithinBounds ==
    \A k \in DOMAIN token_buckets :
        /\ token_buckets[k].tokens >= 0
        /\ token_buckets[k].tokens <= TpmLimit * WindowTicks

\* The largest of three numbers.
Max3(a, b, c) ==
    IF a >= b /\ a >= c THEN a ELSE IF b >= c THEN b ELSE c

\* C24: get_wait_time leaves the limiter as it was, request counters, token
\* buckets and daily counters of every key alike, and returns the largest of
\* its RPM, TPM and TPD wait estimates (an estimate that does not apply
\* counting as 0).
C24_WaitTimeReadsOnly ==
    [][waitCalls' # waitCalls =>
          /\ rateState' = rateState
          /\ lastWait'.value = Max3(lastWait'.rpm, lastWait'.tpm, lastWait'.tpd)]_vars

\* A call for a key that is over its RPM limit, short of tokens in its
\* bucket and out of its daily limit: three estimates apply, they differ,
\* and the value returned is the largest of them.
C24_Witness ==
    /\ waitCalls = 1
    /\ lastWait.rpm > 0 /\ lastWait.tpm > 0 /\ lastWait.tpd > 0
    /\ lastWait.rpm # lastWait.tpm
    /\ lastWait.value = Max3(lastWait.rpm, lastWait.tpm, lastWait.tpd)
    /\ lastWait.value > lastWait.rpm

\* The requesters whose call of the round has returned, and the orders in
\* which their calls can be run one after the other.
Returned == {c \in Requesters : reqPc[c] = "done"}
Orders == {o \in [1..Cardinality(Returned) -> Returned] :
              \A i, j \in DOMAIN o : o[i] = o[j] => i = j}

\* The calls of order o from position i on, run one after the other on the
\* limiter state st: the final state, and whether every decision is the one
\* the requester got.
RECURSIVE SerialRun(_, _, _)
SerialRun(st, o, i) ==
    IF i > Len(o) THEN [st |-> st, same |-> TRUE]
    ELSE LET one == CanRequestFrom(st, SharedModel, reqArgs[o[i]])
             rest == SerialRun(one.st, o, i + 1)
         IN [st |-> rest.st, same |-> rest.same /\ one.by = reqBy[o[i]]]

\* C29: concurrent can_request calls on one key are serialized by the lock:
\* at most one call is inside the locked section, and once the calls of a
\* round have returned their decisions and the limiter state are those of
\* running the calls one after the other in some order from the state the
\* round began in.
C29_CallsSerialized ==
    /\ Cardinality(limiter_lock) <= 1
    /\ (Returned # {} /\ \A c \in Requesters : reqPc[c] \in {"idle", "done"}) =>
           \E o \in Orders :
               LET run == SerialRun(reqBase, o, 1)
               IN run.same /\ run.st = LimiterState

\* Witness of C29: two calls were in flight together, each of which would
\* have been admitted had it been alone, and the capacity sufficed for one:
\* one is admitted and the other denied.
C29_Witness ==
    /\ Returned = Requesters
    /\ \A c \in Requesters :
           CanRequestFrom(reqBase, SharedModel, reqArgs[c]).by = "none"
    /\ \E c \in Requesters :
           /\ reqBy[c] \in {"rpm", "tpm", "tpd"}
           /\ \A d \in Requesters \ {c} : reqBy[d] = "none"
    /\ reqRounds = 1

\* The call reached the daily check: no earlier check denied it.
ReachedDailyCheck == lastDenied' \in {"tpd", "none"}

\* C30: with tpd_limit the same at every call, a call that reaches the daily
\* check is denied by it exactly when the tokens admitted for the key today
\* plus its cost pass tpd_limit; the first such call of a new day sets the
\* counter to the new day and counts from 0; and the tokens admitted for a
\* key within one day, which the counter of that day equals, never pass
\* tpd_limit.
C30_DailyLimitHolds ==
    /\ [](\A k \in Models :
             /\ \A d \in Days : dayAdmitted[k][d] <= TpdLimit
             /\ k \in DOMAIN daily_token_counters =>
                    daily_token_counters[k].tokens =
                        dayAdmitted[k][daily_token_counters[k].date])
    /\ [][\A k \in Models, t \in 1..MaxTokens, tpm \in TpmChoices, rpm \in RpmChoices :
             (can_request_daily(k, t, tpm, rpm) /\ ReachedDailyCheck) =>
                 /\ lastDenied' = "tpd" <=> dayAdmitted[k][today] + t > TpdLimit
                 /\ daily_token_counters'[k].date = today
                 /\ (k \in DOMAIN daily_token_counters
                        /\ daily_token_counters[k].date # today) =>
                       daily_token_counters'[k].tokens =
                           (IF lastDenied' = "none" THEN t ELSE 0)]_vars

\* Witness of C30: yesterday's admissions used tpd_limit up; today a call was
\* admitted all the same, and the call after it was denied by the daily check.
C30_Witness ==
    \E k \in Models :
        /\ today = 1
        /\ dayAdmitted[k][0] = TpdLimit
        /\ dayAdmitted[k][1] > 0
        /\ lastDenied = "tpd"
        /\ daily_token_counters[k] = [tokens |-> dayAdmitted[k][1], date |-> 1]

\* C34: get_wait_time returns 0 exactly when can_request with the same key,
\* cost and limits at the same instant admits the request; when one of the
\* limits denies the request the wait is positive.
C34_ZeroWaitIffAdmitted ==
    [][\A k \in Models, t \in 1..MaxTokens, tpm \in TpmChoices, rpm \in RpmChoices,
          tpd \in TpdChoices, u \in MidnightChoices :
          get_wait_time(k, t, tpm, rpm, tpd, u) =>
              (lastWait'.value = 0 <=> CanRequestOutcome(k, t, tpm, rpm, tpd).admitted)]_vars

(***************************************************************************)
(* Rule cache claims                                                       *)
(***************************************************************************)
AgeOf(c, t) == cacheNow - caches[c][t].timestamp

\* C5: for each of the three caches, a lookup for a task whose entry is
\* younger than CACHE_TTL returns the entry's payload, calls no store and
\* leaves the caches alone; a lookup made when the entry's age has reached
\* CACHE_TTL calls the store for that task, and when the store's rows come
\* back the entry is replaced by the active ones of them in priority order
\* with the timestamp of that moment, which is also what the lookup returns.
C5_TtlLookup ==
    [][\A l \in Lookups, c \in CacheNames, t \in CacheTasks :
          /\ (get_rules_begin(l, c, t) /\ t \in DOMAIN caches[c]) =>
                IF AgeOf(c, t) < CACHE_TTL
                THEN /\ storeCalls' = storeCalls
                     /\ lastResult' = [hit |-> TRUE, failed |-> FALSE,
                                       data |-> caches[c][t].data]
                     /\ caches' = caches
                ELSE /\ storeCalls' = storeCalls + 1
                     /\ lookupPc'[l] = "awaiting"
                     /\ lookupArgs'[l] = [cache |-> c, task_id |-> t]
                     /\ caches' = caches
          /\ (get_rules_finish(l) /\ lookupArgs[l] = [cache |-> c, task_id |-> t]) =>
                /\ t \in DOMAIN caches'[c]
                /\ caches'[c][t] = [data |-> ActiveByPriority(lookupRows[l]),
                                    timestamp |-> cacheNow]
                /\ lastResult'.data = caches'[c][t].data
                /\ ~lastResult'.hit
      ]_vars

\* One task's rules were fetched, served from the cache, and fetched again
\* once the entry was CACHE_TTL old: three lookups, two store calls, and an
\* entry stamped with the time of the second fetch.
C5_Witness ==
    \E c \in CacheNames, t \in CacheTasks :
        /\ lookupCount = 3
        /\ storeCalls = 2
        /\ \A l \in Lookups : lookupPc[l] = "idle"
        /\ ~lastResult.hit /\ ~lastResult.failed
        /\ t \in DOMAIN caches[c]
        /\ caches[c][t].timestamp = CACHE_TTL
        /\ caches[c][t].data # <<>>
        /\ lastResult.data = caches[c][t].data
        /\ \A c2 \in CacheNames, t2 \in CacheTasks :
              <<c2, t2>> # <<c, t>> => t2 \notin DOMAIN caches[c2]

\* The entry of task u is the same in every cache before and after the step.
EntriesKept(u) ==
    \A c \in CacheNames :
        /\ (u \in DOMAIN caches'[c]) = (u \in DOMAIN caches[c])
        /\ u \in DOMAIN caches[c] => caches'[c][u] = caches[c][u]

C38_NoPayloadFromBeforeClear ==
    [][\A l \in Lookups, c \in CacheNames, t \in CacheTasks :
          (get_rules_begin(l, c, t) /\ lastResult'.hit /\ lookupCount' = lookupCount + 1) =>
              <<c, t>> \notin preClearReads.entries]_vars

\* C39: when the store call of a missed lookup raises, the lookup returns the
\* empty list and leaves the three caches as they are, an expired entry of the
\* owner included: it writes no entry, so the owner still has no valid entry
\* unless another lookup wrote one meanwhile, and a lookup begun for an owner
\* without a valid entry calls the store.
C39_FailureNotCached ==
    [][/\ \A l \in Lookups :
             get_rules_store_raises(l) =>
                 /\ lastResult' = [hit |-> FALSE, failed |-> TRUE, data |-> <<>>]
                 /\ caches' = caches
                 /\ lookupPc'[l] = "idle"
       /\ \A l \in Lookups, c \in CacheNames, t \in CacheTasks :
             (get_rules_begin(l, c, t) /\ lastResult.failed
                 /\ ~is_cache_valid(caches[c], t)) =>
                 /\ storeCalls' = storeCalls + 1
                 /\ lookupPc'[l] = "awaiting"
                 /\ lookupArgs'[l] = [cache |-> c, task_id |-> t]
      ]_vars

\* Witness of C39: an owner's entry reached the age CACHE_TTL, the lookup made
\* then called the store and the call raised: the lookup returned the empty
\* list and the expired entry, the only entry there is, is still in the cache.
C39_Witness ==
    \E c \in CacheNames, t \in CacheTasks :
        /\ lastResult = [hit |-> FALSE, failed |-> TRUE, data |-> <<>>]
        /\ lookupCount = 2
        /\ storeCalls = 2
        /\ \A l \in Lookups :
              lookupPc[l] = "idle" /\ lookupArgs[l] = [cache |-> c, task_id |-> t]
        /\ t \in DOMAIN caches[c]
        /\ AgeOf(c, t) >= CACHE_TTL
        /\ \A c2 \in CacheNames, t2 \in CacheTasks :
              <<c2, t2>> # <<c, t>> => t2 \notin DOMAIN caches[c2]

(***************************************************************************)
(* Job queue claims                                                        *)
(***************************************************************************)
Settled(j) == j \in JobIds /\ queue_jobs[j].status \in {"completed", "failed"}

AllJobsHandled == \A j \in JobIds : queue_jobs[j].type \in job_handlers

\* C6: in a started pool that is not stopped, with a handler registered for
\* the type of every job, every enqueued job eventually has status completed
\* or failed.
C6_EveryJobSettles ==
    \A j \in 1..MaxJobs :
        (j \in JobIds /\ loopPc # "not_started" /\ AllJobsHandled /\ ~stopCalled)
            ~> (Settled(j) \/ stopCalled \/ ~AllJobsHandled)

\* C7: once stop() has been called and the poll loop has ended with all its
\* worker tasks finished, no job has status processing.
C7_NoProcessingAtRest ==
    (stopCalled /\ loopPc = "exited" /\ workers = <<>>) =>
        \A j \in JobIds : queue_jobs[j].status # "processing"

Executing == {j \in DOMAIN workers : workers[j].pc = "handler"}

\* C8: at every moment at most max_workers handlers are being executed.
C8_AtMostMaxWorkers == Cardinality(Executing) <= MaxWorkers

\* max_workers handlers are executing while a further pending job with a
\* registered handler, fetched by the same poll, waits for a later cycle.
C8_Witness ==
    /\ Cardinality(Executing) = MaxWorkers
    /\ \E j \in JobIds :
          /\ j \notin DOMAIN workers
          /\ queue_jobs[j].status = "pending"
          /\ queue_jobs[j].type \in job_handlers
          /\ \A w \in DOMAIN workers : j < w \/ queue_jobs[j].priority < queue_jobs[w].priority

\* C9: with no store call ever raising, a job whose handler has raised on
\* every invocation has been invoked at most max_attempts times.
C9_InvokedAtMostMaxAttempts ==
    storeFaults = 0 =>
        \A j \in JobIds :
            ~jobHist[j].returned => jobHist[j].invoked <= queue_jobs[j].max_attempts

\* Job i comes before job j in "priority DESC, created_at ASC".
Precedes(i, j) ==
    \/ queue_jobs[i].priority > queue_jobs[j].priority
    \/ queue_jobs[i].priority = queue_jobs[j].priority /\ i < j

\* A pending job whose type has a registered handler.
Startable(i) ==
    i \in JobIds /\ queue_jobs[i].status = "pending" /\ queue_jobs[i].type \in job_handlers

\* C37: in a started pool that is not stopped, every pending job whose type
\* has a registered handler eventually has its handler invoked (or leaves the
\* pending state through a worker), whatever other jobs are in the queue.
C37_HandledJobEventuallyRuns ==
    \A j \in 1..MaxJobs :
        (Startable(j) /\ loopPc # "not_started" /\ ~stopCalled)
            ~> (stopCalled \/ (j \in JobIds /\ (jobHist[j].invoked > 0 \/ queue_jobs[j].status # "pending")))

\* C21: a poll cycle starts jobs from the head of the pending list ordered
\* by priority descending, then creation ascending: when it starts a job, every
\* pending job with a registered handler that precedes that job in this order
\* is started in the same cycle.
C21_StartsFromHead ==
    [][(loopPc = "poll" /\ loopPc' = "gather") =>
          \A j \in DOMAIN workers' : \A i \in JobIds :
              (Startable(i) /\ Precedes(i, j)) => i \in DOMAIN workers']_vars

\* A cycle has just started two jobs and left a third startable job waiting;
\* one of the started jobs is younger than the waiting one and was taken for
\* its priority.
C21_Witness ==
    /\ loopPc = "gather"
    /\ Cardinality(DOMAIN workers) = MaxWorkers
    /\ \A j \in DOMAIN workers : workers[j].pc = "start"
    /\ \E i \in JobIds : \E j \in DOMAIN workers :
          /\ i \notin DOMAIN workers
          /\ Startable(i)
          /\ j > i
          /\ queue_jobs[j].priority > queue_jobs[i].priority

\* C22: a job whose type has no registered handler is left as it is by
\* every step: its row (status, attempts) does not change and no worker is
\* created for it, so it is never marked processing or failed for want of
\* a handler and stays pending.
C22_NoHandlerNoChange ==
    [][\A j \in JobIds :
          queue_jobs[j].type \notin job_handlers =>
              /\ queue_jobs'[j] = queue_jobs[j]
              /\ j \notin DOMAIN workers']_vars

\* A cycle has walked over a pending job without handler that was ahead in
\* the batch and has started the job behind it; the job without handler is
\* untouched.
C22_Witness ==
    /\ loopPc = "gather"
    /\ \E i \in JobIds : \E j \in DOMAIN workers :
          /\ workers[j].pc = "start"
          /\ Precedes(i, j)
          /\ queue_jobs[i].type \notin job_handlers
          /\ queue_jobs[i].status = "pending" /\ queue_jobs[i].attempts = 0
          /\ i \notin DOMAIN workers
          /\ Cardinality({k \in JobIds : Precedes(k, j)}) < MaxWorkers

\* A job whose status is completed or failed.
Terminal(j) == queue_jobs[j].status \in {"completed", "failed"}

\* C33: terminal states are absorbing: no step changes the row of a job that
\* is completed or failed or invokes its handler again, and a failed job has
\* attempts of at least max_attempts.
C33_TerminalAbsorbing ==
    /\ [](\A j \in JobIds :
             queue_jobs[j].status = "failed" =>
                 queue_jobs[j].attempts >= queue_jobs[j].max_attempts)
    /\ [][\A j \in JobIds : Terminal(j) =>
             /\ queue_jobs'[j] = queue_jobs[j]
             /\ jobHist'[j].invoked = jobHist[j].invoked]_vars

\* Witness of C33: one job is completed, another failed after its handler
\* was invoked more than once, and the pool has gone through a further poll
\* since.
C33_Witness ==
    \E i, j \in JobIds :
        /\ queue_jobs[i].status = "completed"
        /\ queue_jobs[j].status = "failed"
        /\ jobHist[j].invoked >= 2
        /\ workers = <<>>
        /\ loopPc = "poll"

(***************************************************************************)
(* AI pipeline claims                                                      *)
(***************************************************************************)
StageSuccess(name) ==
    {stages[i].success : i \in {n \in 1..Len(stages) : stages[n].stage_name = name}}

\* C10: when the generate stage yields no usable output, process returns,
\* the ai_summarization stage is recorded with success false, postprocessing
\* is given the rule-applied text, and final_text is what postprocessing
\* makes of the rule-applied text.
C10_FallsBackToRuleText ==
    (pipePc = "done" /\ stages # <<>> /\ IsBlank(ai_output)) =>
        /\ pipeResult.returned
        /\ StageSuccess("ai_summarization") = {FALSE}
        /\ postInput = ruleText
        /\ final_text = PostOutput(ruleText)

\* An error-severity validation of postprocessing failed: the postprocessing
\* stage carries success false exactly then.
ErrorValidationFailed == StageSuccess("postprocessing") = {FALSE}

\* C11: the success of the result is false if and only if an error-severity
\* validation of postprocessing failed; a failed generate stage or an error
\* of the rule engine alone leaves success true.
C11_SuccessIffNoErrorValidation ==
    (pipePc = "done" /\ stages # <<>>) =>
        (~pipeResult.success <=> ErrorValidationFailed)

\* C23: an exception raised inside the preprocessing, rule engine or
\* postprocessing stage does not leave process: the call never ends by
\* raising, and a rule engine stage that failed hands on the text it was
\* given.
C23_StageExceptionsAbsorbed ==
    /\ pipePc # "raised"
    /\ (StageSuccess("rule_engine") = {FALSE} => ruleText = Strip(pipeInput))

\* The names of the stages of a trace, in order.
StageNames(st) == [i \in 1..Len(st) |-> st[i].stage_name]

FourStages == <<"preprocessing", "rule_engine", "ai_summarization", "postprocessing">>

Dispatched(n) == n \in DOMAIN dispatch /\ dispatch[n].pc # "blocked"

Ended(n) == n \in DOMAIN dispatch /\ dispatch[n].pc \in {"done", "raised"}

Attempted(n) == {t \in Targets : dispatch[n].results[t] # "pending"}

ArchiveRecordsOf(n) == {i \in DOMAIN archive_messages : archive_messages[i].unit = n}

Delivered(n) == \E t \in Targets : dispatch[n].results[t] = "delivered"

\* C13: a unit whose processing has ended, single message or media group,
\* has exactly one archive record when its content was delivered to at least
\* one target, and none when it was delivered to no target.
C13_OneArchiveRecordIffDelivered ==
    \A n \in DOMAIN dispatch :
        dispatch[n].pc = "done" =>
            Cardinality(ArchiveRecordsOf(n)) = IF Delivered(n) THEN 1 ELSE 0

\* The value of the counter of a task: 0 while the task has no row.
RECURSIVE MaxOf(_)
MaxOf(S) ==
    IF S = {} THEN 0
    ELSE LET v == CHOOSE x \in S : TRUE
             m == MaxOf(S \ {v})
         IN IF v >= m THEN v ELSE m

CounterValue(t) == MaxOf(serialRows[t])

SerialsHandedOut(t) ==
    {returned[i].serial : i \in {j \in DOMAIN returned : returned[j].task = t}}

\* C14: a unit has its serial number before any send is made for it, a
\* number that has been handed out for a task is never handed out again for
\* that task, and the counter of a task never goes down, whatever becomes of
\* the unit (every send failed, blocked, no archive record).
C14_AllocatedOnceBeforeSend ==
    [][/\ \A n \in DOMAIN dispatch' : n \in DOMAIN returned'
       /\ \A t \in Tasks : CounterValue(t)' >= CounterValue(t)
       /\ \A n \in (DOMAIN returned') \ (DOMAIN returned) :
             returned'[n].serial \notin SerialsHandedOut(returned'[n].task)
      ]_vars

\* C35: a single message for which _process_message reported a matching
\* block filter is sent to no destination, neither with the processed text
\* nor with the original one.
C35_BlockedNotSent ==
    \A i \in DOMAIN fwdSends : ~fwdBlocked[fwdSends[i].message]

(***************************************************************************)
(* Serial counter claims for calls that do not overlap                     *)
(***************************************************************************)
\* The serial allocations of a task, in the order the calls returned.
ReturnedOf(t) == SelectSeq(returned, LAMBDA e : e.task = t)

\* No call made for the task so far ran while another call for it was running.
NoOverlap(t) ==
    /\ \A i \in DOMAIN returned : returned[i].task = t => ~returned[i].overlap
    /\ \A c \in InFlight(t) : ~callOverlap[c]

\* C20: when the calls of get_next_serial_number for a task do not overlap,
\* the k-th call returns k, starting at 1, and after each call the row of the
\* task holds the value just returned as last_serial: no gap, no repeat.
C20_SequentialGapFree ==
    \A t \in Tasks :
        NoOverlap(t) =>
            /\ \A k \in DOMAIN ReturnedOf(t) : ReturnedOf(t)[k].serial = k
            /\ serialRows[t] = IF ReturnedOf(t) = <<>> THEN {} ELSE {Len(ReturnedOf(t))}

\* Three calls for one task, one after the other, have returned 1, 2 and 3
\* and the row of the task holds 3.
C20_Witness ==
    \E t \in Tasks :
        /\ NoOverlap(t)
        /\ Len(ReturnedOf(t)) = MaxSerialCalls
        /\ ReturnedOf(t)[MaxSerialCalls].serial = MaxSerialCalls
        /\ serialRows[t] = {MaxSerialCalls}

(***************************************************************************)
(* Generate call claims                                                    *)
(***************************************************************************)
\* C18: every request sent to the inference service by the generate stage
\* is for a model that RateLimiter.can_request admitted beforehand in this
\* call; no request is sent for a model that was not admitted.
C18_CallsAdmitted ==
    \A i \in DOMAIN inferenceCalls : inferenceCalls[i] \in admissions

\* C19: a generate call that is waiting for the inference service comes to
\* an end whether or not the service ever answers, and the pipeline that made
\* it gets its result.
C19_GenerateTerminates == (genPc = "awaiting") ~> (genPc = "done")

\* The generate call is over and handed the pipeline an empty result.
GaveUp ==
    /\ genPc = "done"
    /\ genResult.output = "empty"
    /\ genResult.how # "no_provider"

\* C31: for one generate request the models are requested in the order of the
\* list, the requested model first; a text handed back is the answer of the
\* last model requested, so nothing is requested after a usable response; and
\* an empty result is handed to the pipeline only when every model of the
\* list has been requested.
C31_FallbackInListOrder ==
    /\ models_to_try # <<>> =>
           /\ inferenceCalls = SubSeq(models_to_try, 1, tryIndex)
           /\ models_to_try[1] = (IF genRequest.provider = "groq"
                                  THEN GroqMapped(genRequest.model)
                                  ELSE genRequest.model)
    /\ (genPc = "done" /\ genResult.output = "text") =>
           genResult.model = inferenceCalls[Len(inferenceCalls)]
    /\ GaveUp => Len(inferenceCalls) = Len(models_to_try)

\* C32: a rate-limit answer for one model is handled like any other failure:
\* while models of the list remain, the next one is requested.
C32_RateLimitFallsBack ==
    [][(inference_responds("rate_limit") /\ tryIndex < Len(models_to_try)) =>
          /\ genPc' = "awaiting"
          /\ inferenceCalls' = Append(inferenceCalls, models_to_try[tryIndex + 1])]_vars

====
